---- MODULE Spec2Model ----
(***************************************************************************)
(* Re-ML proof admission: the on-chain verifier pallet                     *)
(* (pallets/reml-verifier), the Merkle commitment as implemented by the    *)
(* pallet, the shared library and the zkVM guest, the guest's batch        *)
(* orchestration, ML-DSA verifier and number-theoretic transform, the      *)
(* serialization of the shared types, and the collector of the prover      *)
(* (reml-prover serve).                                                    *)
(*                                                                         *)
(* Byte strings are sequences of integers 0..255.  A hash function is      *)
(* modelled as a collision-free symbolic digest: the digest of `data`      *)
(* under algorithm `alg` is the sequence <<alg, Len(data)>> \o data, with  *)
(* a negative tag per algorithm, so that two digests are equal exactly     *)
(* when the algorithm and the hashed bytes are equal, and a concatenation  *)
(* of digests splits in one way only.                                      *)
(***************************************************************************)
EXTENDS Integers, Sequences, FiniteSets, TLC

VARIABLES
    Aggregators,             \* StorageMap AccountId -> AggregatorInfo
    VerifiedBatches,         \* StorageMap batch_id -> BatchInfo
    VerifiedRequests,        \* StorageMap request_id -> <<batch_id, block>>
    TotalProofsVerified,     \* StorageValue u64
    TotalSignaturesVerified, \* StorageValue u64
    ProofCommitments,        \* StorageMap H256 -> block
    block_number,            \* frame_system block number
    ExpectedVKeyHash,        \* Config::ExpectedVKeyHash of this chain
    last,                    \* the last call: operation, origin, argument,
                             \* result, events deposited
    ids_in,                  \* Merkle commitment: the id list given
    roots,                   \* Merkle commitment: the roots computed from it
    pc_merkle,               \* Merkle commitment: "off", "input" or "done"
    guest_in,                \* guest: the RemlProofInput read from the host
    guest_out,               \* guest: what the run left (abort or output)
    pc_guest,                \* guest: "off", "input" or "done"
    pending_requests,        \* collector: AggregatorState.pending_requests
    batch_size,              \* collector: AggregatorState.batch_size
    batch_counter,           \* collector: AggregatorState.batch_counter
    rw_lock,                 \* collector: the RwLock around AggregatorState
    conn,                    \* collector: the task of each connection
    proving,                 \* collector: the proving tasks in flight
    proofs,                  \* collector: batch_id -> how its proving ended
    accepted,                \* collector: connections accepted so far
    pushed,                  \* collector: every request pushed, in order
    closed,                  \* collector: every batch taken, in order
    fn_in,                   \* a function under study: its argument
    fn_out,                  \* a function under study: its result
    pc_fn                    \* a function under study: "off", "input", "done"

chain_vars == <<Aggregators, VerifiedBatches, VerifiedRequests,
                TotalProofsVerified, TotalSignaturesVerified, ProofCommitments,
                block_number, ExpectedVKeyHash, last>>

merkle_vars == <<ids_in, roots, pc_merkle>>

guest_vars == <<guest_in, guest_out, pc_guest>>

collector_vars == <<pending_requests, batch_size, batch_counter, rw_lock, conn,
                    proving, proofs, accepted, pushed, closed>>

fn_vars == <<fn_in, fn_out, pc_fn>>

vars == <<chain_vars, merkle_vars, guest_vars, collector_vars, fn_vars>>

-----------------------------------------------------------------------------
(* Bounds of the model *)

MaxBlock == 2

MaxBatchId == 2

MaxMerkleLen == 5

MaxGuestLen == 3

MaxConns == 2

MaxAccepted == 3

MaxBatchSize == 2

MaxBytesLen == 2

MaxZLen == 2

\* Config::MaxAggregators is a u32 the runtime configures; no runtime of the
\* repository configures the pallet, so a value is chosen here
MaxAggregators == 1

-----------------------------------------------------------------------------
(* Program constants *)

REML_VERSION == 1

TESSERAX_CHAIN_ID == 13817

MIN_PROOF_SIZE == 1024

GROTH16_PROOF_SIZE == 260

SMALL_PROOF_LIMIT == 1000

XOR_ZERO_THRESHOLD == 28

MLDSA_PUBLIC_KEY_SIZE == 1312

MLDSA_SIGNATURE_SIZE == 2420

GAMMA1 == 131072

BETA == 78

TAU == 39

N == 256

Q == 8380417

QINV == 58728449

-----------------------------------------------------------------------------
(* Bytes and hash functions *)

BLAKE2_256 == 0 - 1

KECCAK256 == 0 - 2

GUEST_KECCAK256 == 0 - 3

Zero32 == [i \in 1..32 |-> 0]

RECURSIVE to_le_bytes(_, _)
to_le_bytes(n, width) ==
    IF width = 0 THEN << >>
    ELSE <<n % 256>> \o to_le_bytes(n \div 256, width - 1)

\* sp_core::blake2_256
blake2_256(data) == <<BLAKE2_256, Len(data)>> \o data

\* sha3::Keccak256 (the shared library)
Keccak256(data) == <<KECCAK256, Len(data)>> \o data

\* the guest's hand-written keccak256: it permutes the state once after
\* absorbing the last block and once more after padding, so its output is
\* not the Keccak-256 digest of the same input
keccak256(data) == <<GUEST_KECCAK256, Len(data)>> \o data

\* the zero-padded 32-byte leaf buffer: leaf[..8] = id.to_le_bytes()
padded_leaf(id) == to_le_bytes(id, 8) \o [i \in 1..24 |-> 0]

-----------------------------------------------------------------------------
(* Merkle commitment: pallet *)

\* mutant: an odd last node is left out of the next level
RECURSIVE pallet_next_level_dropping(_)
pallet_next_level_dropping(leaves) ==
    IF Len(leaves) = 0 THEN << >>
    ELSE IF Len(leaves) = 1 THEN << >>
    ELSE <<blake2_256(leaves[1] \o leaves[2])>>
         \o pallet_next_level_dropping(SubSeq(leaves, 3, Len(leaves)))

RECURSIVE pallet_next_level(_)
pallet_next_level(leaves) ==
    IF Len(leaves) = 0 THEN << >>
    ELSE IF Len(leaves) = 1 THEN <<leaves[1]>>
    ELSE <<blake2_256(leaves[1] \o leaves[2])>>
         \o pallet_next_level(SubSeq(leaves, 3, Len(leaves)))

RECURSIVE pallet_build_tree(_)
pallet_build_tree(leaves) ==
    IF Len(leaves) > 1 THEN pallet_build_tree(pallet_next_level(leaves))
    ELSE leaves[1]

compute_merkle_root(ids) ==
    IF Len(ids) = 0 THEN Zero32
    ELSE pallet_build_tree([i \in 1..Len(ids) |-> blake2_256(padded_leaf(ids[i]))])

(* Merkle commitment: shared library *)

\* mutant: an odd last node is paired with itself
RECURSIVE lib_next_level_duplicating(_)
lib_next_level_duplicating(leaves) ==
    IF Len(leaves) = 0 THEN << >>
    ELSE IF Len(leaves) = 1 THEN <<Keccak256(leaves[1] \o leaves[1])>>
    ELSE <<Keccak256(leaves[1] \o leaves[2])>>
         \o lib_next_level_duplicating(SubSeq(leaves, 3, Len(leaves)))

RECURSIVE lib_next_level(_)
lib_next_level(leaves) ==
    IF Len(leaves) = 0 THEN << >>
    ELSE IF Len(leaves) = 1 THEN <<leaves[1]>>
    ELSE <<Keccak256(leaves[1] \o leaves[2])>>
         \o lib_next_level(SubSeq(leaves, 3, Len(leaves)))

RECURSIVE lib_build_tree(_)
lib_build_tree(leaves) ==
    IF Len(leaves) > 1 THEN lib_build_tree(lib_next_level(leaves))
    ELSE leaves[1]

\* mutant: the ids are put in ascending order before they are hashed
compute_requests_root_sorted(ids) ==
    IF Len(ids) = 0 THEN Zero32
    ELSE LET n == Len(ids)
             sorted == CHOOSE q \in [1..n -> {ids[i] : i \in 1..n}] :
                          /\ \A i \in 1..(n - 1) : q[i] <= q[i + 1]
                          /\ \A x \in {ids[i] : i \in 1..n} :
                                Cardinality({i \in 1..n : q[i] = x})
                                    = Cardinality({i \in 1..n : ids[i] = x})
         IN  lib_build_tree([i \in 1..n |-> Keccak256(to_le_bytes(sorted[i], 8))])

compute_requests_root(ids) ==
    IF Len(ids) = 0 THEN Zero32
    ELSE lib_build_tree([i \in 1..Len(ids) |-> Keccak256(to_le_bytes(ids[i], 8))])

(* Merkle commitment: guest *)

RECURSIVE guest_next_level(_)
guest_next_level(leaves) ==
    IF Len(leaves) = 0 THEN << >>
    ELSE IF Len(leaves) = 1 THEN <<leaves[1]>>
    ELSE <<keccak256(leaves[1] \o leaves[2])>>
         \o guest_next_level(SubSeq(leaves, 3, Len(leaves)))

RECURSIVE guest_build_tree(_)
guest_build_tree(leaves) ==
    IF Len(leaves) > 1 THEN guest_build_tree(guest_next_level(leaves))
    ELSE leaves[1]

guest_compute_merkle_root(ids) ==
    IF Len(ids) = 0 THEN Zero32
    ELSE guest_build_tree([i \in 1..Len(ids) |-> keccak256(padded_leaf(ids[i]))])

-----------------------------------------------------------------------------
(* Storage maps: a map is a function whose domain is the set of keys present *)

EmptyMap == [k \in {} |-> 0]

contains_key(map, key) == key \in DOMAIN map

insert(map, key, value) ==
    [k \in (DOMAIN map) \cup {key} |-> IF k = key THEN value ELSE map[k]]

RECURSIVE insert_all(_, _, _)
insert_all(map, keys, value) ==
    IF Len(keys) = 0 THEN map
    ELSE insert_all(insert(map, keys[1], value), Tail(keys), value)

\* the pallet's storage as one value, as the handlers read and write it
Storage ==
    [Aggregators |-> Aggregators,
     VerifiedBatches |-> VerifiedBatches,
     VerifiedRequests |-> VerifiedRequests,
     TotalProofsVerified |-> TotalProofsVerified,
     TotalSignaturesVerified |-> TotalSignaturesVerified,
     ProofCommitments |-> ProofCommitments]

-----------------------------------------------------------------------------
(* Origins *)

Accounts == {"alice", "bob"}

Origins == {"root"} \cup Accounts

AllOrigins == {"root", "none"} \cup Accounts

ensure_root(origin) == origin = "root"

ensure_signed(origin) == origin \in Accounts

-----------------------------------------------------------------------------
(* Proof bytes.  A proof is `len` bytes of which at most one 32-byte window, *)
(* at offset `at` (0-based, -1: none), carries a digest: the window differs  *)
(* from `target` in exactly `diff` byte positions.  All other windows are    *)
(* unrelated to every digest.                                                *)

proof_bytes(proof) == <<proof.len, proof.at + 1, proof.diff>> \o proof.target

\* window == public_hash, or at least 28 zero bytes in window XOR public_hash
window_matches(proof, i, public_hash) ==
    /\ proof.at = i
    /\ proof.target = public_hash
    /\ \/ proof.diff = 0
       \/ 32 - proof.diff >= XOR_ZERO_THRESHOLD

saturating_sub(a, b) == IF a >= b THEN a - b ELSE 0

public_values_hash(public_values) ==
    blake2_256(<<public_values.version % 256>>
               \o to_le_bytes(public_values.chain_id, 4)
               \o to_le_bytes(public_values.batch_id, 8)
               \o to_le_bytes(public_values.verified_count, 4)
               \o public_values.requests_root)

\* line 524: the size floor
proof_size_ok(proof) ==
    ~(proof.len < MIN_PROOF_SIZE /\ proof.len # GROTH16_PROOF_SIZE)

\* lines 540-566: the search for blake2_256(vkey_hash) among the windows
\* 0..proof.len().saturating_sub(32); the result is computed and then
\* discarded (let _ = found_commitment)
found_commitment(proof, vkey_hash) ==
    /\ proof.len >= 33
    /\ \E i \in {proof.at} \cap (0..(saturating_sub(proof.len, 32) - 1)) :
          /\ proof.diff = 0
          /\ proof.target = blake2_256(vkey_hash)

\* lines 583-604: for i in 0..proof.len().saturating_sub(32)
valid_public_binding(proof, public_hash) ==
    \E i \in {proof.at} \cap (0..(saturating_sub(proof.len, 32) - 1)) :
        window_matches(proof, i, public_hash)

\* mutant: a verified_count of zero is not refused
verify_sp1_proof_any_count(proof, public_values, vkey_hash) ==
    IF ~proof_size_ok(proof) THEN FALSE
    ELSE IF public_values.verified_count # Len(public_values.verified_request_ids)
    THEN FALSE
    ELSE LET public_hash == public_values_hash(public_values)
         IN  IF ~valid_public_binding(proof, public_hash)
                /\ proof.len < SMALL_PROOF_LIMIT
             THEN FALSE
             ELSE TRUE

verify_sp1_proof(proof, public_values, vkey_hash) ==
    IF ~proof_size_ok(proof) THEN FALSE
    ELSE IF public_values.verified_count = 0 THEN FALSE
    ELSE IF public_values.verified_count # Len(public_values.verified_request_ids)
    THEN FALSE
    ELSE LET public_hash == public_values_hash(public_values)
         IN  IF ~valid_public_binding(proof, public_hash)
                /\ proof.len < SMALL_PROOF_LIMIT
             THEN FALSE
             ELSE TRUE

compute_proof_commitment(submission) ==
    LET proof_hash == blake2_256(proof_bytes(submission.proof))
    IN  blake2_256(submission.vkey_hash
                   \o to_le_bytes(submission.batch_id, 8)
                   \o submission.public_values.requests_root
                   \o proof_hash)

-----------------------------------------------------------------------------
(* Dispatchables.  Each returns the call's result, the storage it leaves and *)
(* the events it deposited.                                                  *)

Return(res, storage, dep) == [res |-> res, storage |-> storage, dep |-> dep]

\* mutant: an account already registered is registered again
register_aggregator_unchecked(S, origin, aggregator, current_block) ==
    IF ~ensure_root(origin) THEN Return("BadOrigin", S, << >>)
    ELSE Return("Ok",
                [S EXCEPT !.Aggregators =
                    insert(@, aggregator,
                           [registered_at |-> current_block,
                            proofs_submitted |-> 0,
                            active |-> TRUE])],
                <<[event |-> "AggregatorRegistered", aggregator |-> aggregator]>>)

register_aggregator(S, origin, aggregator, current_block) ==
    IF ~ensure_root(origin) THEN Return("BadOrigin", S, << >>)
    ELSE IF contains_key(S.Aggregators, aggregator)
    THEN Return("AggregatorAlreadyRegistered", S, << >>)
    ELSE Return("Ok",
                [S EXCEPT !.Aggregators =
                    insert(@, aggregator,
                           [registered_at |-> current_block,
                            proofs_submitted |-> 0,
                            active |-> TRUE])],
                <<[event |-> "AggregatorRegistered", aggregator |-> aggregator]>>)

\* mutant: any origin may deactivate
deactivate_aggregator_unprivileged(S, origin, aggregator) ==
    IF ~contains_key(S.Aggregators, aggregator)
    THEN Return("AggregatorNotFound", S, << >>)
    ELSE Return("Ok",
                [S EXCEPT !.Aggregators[aggregator].active = FALSE],
                <<[event |-> "AggregatorDeactivated", aggregator |-> aggregator]>>)

deactivate_aggregator(S, origin, aggregator) ==
    IF ~ensure_root(origin) THEN Return("BadOrigin", S, << >>)
    ELSE IF ~contains_key(S.Aggregators, aggregator)
    THEN Return("AggregatorNotFound", S, << >>)
    ELSE Return("Ok",
                [S EXCEPT !.Aggregators[aggregator].active = FALSE],
                <<[event |-> "AggregatorDeactivated", aggregator |-> aggregator]>>)

\* mutant: the commitment is stored before the proof is checked
reject_stark_after_commit(S, aggregator, submission) ==
    Return("ProofVerificationFailed",
           [S EXCEPT !.ProofCommitments =
               insert(@, compute_proof_commitment(submission), 0)],
           <<[event |-> "ProofRejected",
              batch_id |-> submission.batch_id,
              aggregator |-> aggregator,
              reason |-> "StarkVerificationFailed"]>>)

\* mutant: the error is returned without an event
reject_stark_silent(S, aggregator, submission) ==
    Return("ProofVerificationFailed", S, << >>)

\* lines 367-374: the structural check failed
reject_stark(S, aggregator, submission) ==
    Return("ProofVerificationFailed", S,
           <<[event |-> "ProofRejected",
              batch_id |-> submission.batch_id,
              aggregator |-> aggregator,
              reason |-> "StarkVerificationFailed"]>>)

\* mutant: the signature total counts proofs, not signatures
update_storage_miscounting(S, aggregator, aggregator_info, submission, proof_commitment, current_block) ==
    Return("Ok",
           [Aggregators |->
                insert(S.Aggregators, aggregator,
                       [aggregator_info EXCEPT !.proofs_submitted = @ + 1]),
            VerifiedBatches |->
                insert(S.VerifiedBatches, submission.batch_id,
                       [aggregator |-> aggregator,
                        verified_at |-> current_block,
                        signature_count |-> submission.public_values.verified_count,
                        requests_root |-> submission.public_values.requests_root,
                        proof_commitment |-> proof_commitment]),
            VerifiedRequests |->
                insert_all(S.VerifiedRequests,
                           submission.public_values.verified_request_ids,
                           <<submission.batch_id, current_block>>),
            TotalProofsVerified |-> S.TotalProofsVerified + 1,
            TotalSignaturesVerified |-> S.TotalSignaturesVerified + 1,
            ProofCommitments |->
                insert(S.ProofCommitments, proof_commitment, current_block)],
           <<[event |-> "ProofVerified",
              batch_id |-> submission.batch_id,
              aggregator |-> aggregator,
              signature_count |-> submission.public_values.verified_count,
              block_number |-> current_block]>>)

\* lines 380-418: UPDATE STORAGE
update_storage(S, aggregator, aggregator_info, submission, proof_commitment, current_block) ==
    Return("Ok",
           [Aggregators |->
                insert(S.Aggregators, aggregator,
                       [aggregator_info EXCEPT !.proofs_submitted = @ + 1]),
            VerifiedBatches |->
                insert(S.VerifiedBatches, submission.batch_id,
                       [aggregator |-> aggregator,
                        verified_at |-> current_block,
                        signature_count |-> submission.public_values.verified_count,
                        requests_root |-> submission.public_values.requests_root,
                        proof_commitment |-> proof_commitment]),
            VerifiedRequests |->
                insert_all(S.VerifiedRequests,
                           submission.public_values.verified_request_ids,
                           <<submission.batch_id, current_block>>),
            TotalProofsVerified |-> S.TotalProofsVerified + 1,
            TotalSignaturesVerified |->
                S.TotalSignaturesVerified + submission.public_values.verified_count,
            ProofCommitments |->
                insert(S.ProofCommitments, proof_commitment, current_block)],
           <<[event |-> "ProofVerified",
              batch_id |-> submission.batch_id,
              aggregator |-> aggregator,
              signature_count |-> submission.public_values.verified_count,
              block_number |-> current_block]>>)

\* mutant: the active flag is not looked at
authorized_ignoring_active(S, origin) == contains_key(S.Aggregators, origin)

\* lines 308-310: the caller is a registered and active aggregator
authorized(S, origin) ==
    IF ~contains_key(S.Aggregators, origin) THEN FALSE
    ELSE S.Aggregators[origin].active

\* mutant: the batch_id check is left out
batch_unseen_unchecked(S, submission) == TRUE

\* lines 313-316
batch_unseen(S, submission) ==
    ~contains_key(S.VerifiedBatches, submission.batch_id)

\* lines 319-330
\* mutant: the batch_id of the public values is not compared
public_values_valid_unbound_batch(submission) ==
    /\ submission.public_values.version = REML_VERSION
    /\ submission.public_values.chain_id = TESSERAX_CHAIN_ID

public_values_valid(submission) ==
    /\ submission.public_values.version = REML_VERSION
    /\ submission.public_values.chain_id = TESSERAX_CHAIN_ID
    /\ submission.public_values.batch_id = submission.batch_id

\* mutant: the vkey hash is compared even when none is configured
vkey_hash_valid_never_skipped(expected_vkey, submission) ==
    submission.vkey_hash = expected_vkey

\* lines 333-339: the check is skipped when the configured hash is all zeros
vkey_hash_valid(expected_vkey, submission) ==
    IF expected_vkey # Zero32 THEN submission.vkey_hash = expected_vkey
    ELSE TRUE

\* lines 345-348
commitment_unused(S, proof_commitment) ==
    ~contains_key(S.ProofCommitments, proof_commitment)

\* mutant: the root is compared with the library's root
merkle_root_valid_against_lib(submission) ==
    compute_requests_root(submission.public_values.verified_request_ids)
        = submission.public_values.requests_root

\* lines 351-355
merkle_root_valid(submission) ==
    compute_merkle_root(submission.public_values.verified_request_ids)
        = submission.public_values.requests_root

submit_proof(S, origin, submission, expected_vkey, current_block) ==
    IF ~ensure_signed(origin) THEN Return("BadOrigin", S, << >>)
    ELSE IF ~authorized(S, origin) THEN Return("NotAuthorized", S, << >>)
    ELSE IF ~batch_unseen(S, submission)
    THEN Return("BatchAlreadyVerified", S, << >>)
    ELSE IF ~public_values_valid(submission)
    THEN Return("InvalidPublicValues", S, << >>)
    ELSE IF ~vkey_hash_valid(expected_vkey, submission)
    THEN Return("InvalidVKeyHash", S, << >>)
    ELSE IF ~commitment_unused(S, compute_proof_commitment(submission))
    THEN Return("ProofAlreadyUsed", S, << >>)
    ELSE IF ~merkle_root_valid(submission)
    THEN Return("InvalidMerkleRoot", S, << >>)
    ELSE IF ~verify_sp1_proof(submission.proof, submission.public_values,
                              submission.vkey_hash)
    THEN reject_stark(S, origin, submission)
    ELSE update_storage(S, origin, S.Aggregators[origin], submission,
                        compute_proof_commitment(submission), current_block)

\* read interfaces
is_request_verified(S, request_id) == contains_key(S.VerifiedRequests, request_id)

is_aggregator(S, account) ==
    IF contains_key(S.Aggregators, account) THEN S.Aggregators[account].active
    ELSE FALSE


-----------------------------------------------------------------------------
(* The guest program and the host's proving core.  A SignatureRequest is     *)
(* [request_id, public_key_len, signature_len, signature_ok]: the lengths of *)
(* its key and signature, and whether the ML-DSA verification of its         *)
(* (message, public_key, signature) succeeds when the sizes are right.       *)

\* mutant: only the key is measured
validate_sizes_key_only(request) == request.public_key_len = MLDSA_PUBLIC_KEY_SIZE

validate_sizes(request) ==
    /\ request.public_key_len = MLDSA_PUBLIC_KEY_SIZE
    /\ request.signature_len = MLDSA_SIGNATURE_SIZE

verify_mldsa_signature(request) ==
    IF request.public_key_len # MLDSA_PUBLIC_KEY_SIZE THEN FALSE
    ELSE IF request.signature_len # MLDSA_SIGNATURE_SIZE THEN FALSE
    ELSE request.signature_ok

\* mutant: the loop ends at the first request that is not verified
RECURSIVE guest_verify_each_stopping(_, _)
guest_verify_each_stopping(requests, acc) ==
    IF Len(requests) = 0 THEN acc
    ELSE IF ~validate_sizes(requests[1]) THEN acc
    ELSE IF verify_mldsa_signature(requests[1])
    THEN guest_verify_each_stopping(
             Tail(requests),
             <<acc[1] + 1, Append(acc[2], requests[1].request_id)>>)
    ELSE acc

\* the loop of main: acc is <<verified_count, verified_request_ids>>
RECURSIVE guest_verify_each(_, _)
guest_verify_each(requests, acc) ==
    IF Len(requests) = 0 THEN acc
    ELSE IF ~validate_sizes(requests[1])
    THEN guest_verify_each(Tail(requests), acc)
    ELSE IF verify_mldsa_signature(requests[1])
    THEN guest_verify_each(Tail(requests),
                           <<acc[1] + 1, Append(acc[2], requests[1].request_id)>>)
    ELSE guest_verify_each(Tail(requests), acc)

RemlProofInput_new(requests, batch_id) ==
    [version |-> REML_VERSION, chain_id |-> TESSERAX_CHAIN_ID,
     batch_id |-> batch_id, requests |-> requests]

RemlProofOutput_new(batch_id, verified_count, requests_root, verified_request_ids) ==
    [version |-> REML_VERSION, chain_id |-> TESSERAX_CHAIN_ID,
     batch_id |-> batch_id, verified_count |-> verified_count,
     requests_root |-> requests_root,
     verified_request_ids |-> verified_request_ids]

\* mutant: the root is taken over the ids of all requests of the input
guest_main_root_of_input(input) ==
    IF input.version # REML_VERSION \/ input.chain_id # TESSERAX_CHAIN_ID
    THEN [aborted |-> TRUE, calls |-> 0]
    ELSE LET acc == guest_verify_each(input.requests, <<0, << >> >>)
             verified_count == acc[1]
             verified_request_ids == acc[2]
         IN  [aborted |-> FALSE,
              calls |-> Len(SelectSeq(input.requests, validate_sizes)),
              output |-> RemlProofOutput_new(
                            input.batch_id,
                            verified_count,
                            guest_compute_merkle_root(
                                [i \in 1..Len(input.requests) |->
                                    input.requests[i].request_id]),
                            verified_request_ids)]

\* mutant: the version and the chain id are not looked at
guest_main_unvalidated(input) ==
    LET acc == guest_verify_each(input.requests, <<0, << >> >>)
        verified_count == acc[1]
        verified_request_ids == acc[2]
    IN  [aborted |-> FALSE,
         calls |-> Len(SelectSeq(input.requests, validate_sizes)),
         output |-> RemlProofOutput_new(
                       input.batch_id,
                       verified_count,
                       guest_compute_merkle_root(verified_request_ids),
                       verified_request_ids)]

\* the guest's main: the committed output, or an abort (nothing committed)
\* when the version or the chain id is not the expected one; calls is the
\* number of requests handed to verify_mldsa_signature
guest_main(input) ==
    IF input.version # REML_VERSION \/ input.chain_id # TESSERAX_CHAIN_ID
    THEN [aborted |-> TRUE, calls |-> 0]
    ELSE LET acc == guest_verify_each(input.requests, <<0, << >> >>)
             verified_count == acc[1]
             verified_request_ids == acc[2]
         IN  [aborted |-> FALSE,
              calls |-> Len(SelectSeq(input.requests, validate_sizes)),
              output |-> RemlProofOutput_new(
                            input.batch_id,
                            verified_count,
                            guest_compute_merkle_root(verified_request_ids),
                            verified_request_ids)]

-----------------------------------------------------------------------------
(* Inputs of the model *)

BatchIds == 1..MaxBatchId

\* the vkey hash of the guest program, and another one
GuestVKey == [i \in 1..32 |-> 7]

OtherVKey == [i \in 1..32 |-> 9]

\* vk.hash_bytes() as the host copies it into the bundle
vkey_hash_of_guest == GuestVKey

OtherBatch(b) == IF b = 1 THEN 2 ELSE 1

\* shapes of proof bytes: [len, at, diff, bound]; bound = 0: the window
\* carries the hash of the submission's own public values, bound = b > 0:
\* the hash of the same public values with batch_id = b, bound < 0: the
\* blake2_256 of the guest's vkey hash
Unbound1024 == [len |-> 1024, at |-> 0 - 1, diff |-> 0, bound |-> 0]

Bound260 == [len |-> 260, at |-> 1, diff |-> 0, bound |-> 0]

Near260 == [len |-> 260, at |-> 1, diff |-> 4, bound |-> 0]

Far260 == [len |-> 260, at |-> 1, diff |-> 5, bound |-> 0]

Last260 == [len |-> 260, at |-> 228, diff |-> 0, bound |-> 0]

Unbound260 == [len |-> 260, at |-> 0 - 1, diff |-> 0, bound |-> 0]

Short100 == [len |-> 100, at |-> 1, diff |-> 0, bound |-> 0]

ForBatch1 == [len |-> 1024, at |-> 33, diff |-> 0, bound |-> 1]

VKey260 == [len |-> 260, at |-> 1, diff |-> 0, bound |-> 0 - 1]

Shapes ==
    {Unbound1024, Bound260, Near260, Far260, Last260, Unbound260, Short100,
     ForBatch1, VKey260}

Defects ==
    {"version", "chain_id", "pv_batch_id", "vkey_hash", "count_zero",
     "count_off", "root_guest", "root_lib", "root_zero", "no_ids"}

MakeProof(shape, public_values) ==
    [len |-> shape.len,
     at |-> shape.at,
     diff |-> shape.diff,
     target |->
        IF shape.at < 0 THEN Zero32
        ELSE IF shape.bound < 0 THEN blake2_256(GuestVKey)
        ELSE IF shape.bound = 0 THEN public_values_hash(public_values)
        ELSE public_values_hash([public_values EXCEPT !.batch_id = shape.bound])]

\* a submission for batch b over the ids, well-formed except for the defects
MakeSubmission(b, idlist, shape, defects) ==
    LET ids == IF "no_ids" \in defects THEN << >> ELSE idlist
        pv == [version |-> IF "version" \in defects THEN REML_VERSION + 1
                           ELSE REML_VERSION,
               chain_id |-> IF "chain_id" \in defects THEN 1
                            ELSE TESSERAX_CHAIN_ID,
               batch_id |-> IF "pv_batch_id" \in defects THEN OtherBatch(b) ELSE b,
               verified_count |->
                   IF "count_zero" \in defects THEN 0
                   ELSE IF "count_off" \in defects THEN Len(ids) + 1
                   ELSE Len(ids),
               requests_root |->
                   IF "root_guest" \in defects THEN guest_compute_merkle_root(ids)
                   ELSE IF "root_lib" \in defects THEN compute_requests_root(ids)
                   ELSE IF "root_zero" \in defects THEN Zero32
                   ELSE compute_merkle_root(ids),
               verified_request_ids |-> ids]
    IN  [batch_id |-> b,
         proof |-> MakeProof(shape, pv),
         public_values |-> pv,
         vkey_hash |-> IF "vkey_hash" \in defects THEN OtherVKey ELSE GuestVKey]

\* no input read, nothing committed
NoInput == [version |-> 0, chain_id |-> 0, batch_id |-> 0, requests |-> << >>]

NoOutput == [aborted |-> FALSE, calls |-> 0]

\* Scenario A: ten validly signed requests with the ids 0..9
ScenarioARequests ==
    [i \in 1..10 |->
        [request_id |-> i - 1,
         public_key_len |-> MLDSA_PUBLIC_KEY_SIZE,
         signature_len |-> MLDSA_SIGNATURE_SIZE,
         signature_ok |-> TRUE]]

\* the host's proving core: the bundle for an input the guest does not abort
\* on; the proof bytes are opaque, of the given shape
generate_proof(input, shape) ==
    LET output == guest_main(input).output
    IN  [proof |-> MakeProof(shape, output),
         output |-> output,
         vkey_hash |-> vkey_hash_of_guest]

\* generate_proof as a Result: client.prove(..).run() fails when the guest
\* aborts, and the error is returned in place of a bundle
generate_proof_result(input, shape) ==
    IF guest_main(input).aborted
    THEN [ok |-> FALSE, error |-> "Proof generation failed"]
    ELSE [ok |-> TRUE, bundle |-> generate_proof(input, shape)]

\* the ProofSubmission an aggregator makes of a bundle
SubmissionOfBundle(bundle) ==
    [batch_id |-> bundle.output.batch_id,
     proof |-> bundle.proof,
     public_values |-> bundle.output,
     vkey_hash |-> bundle.vkey_hash]

ScenarioASubmission(b) ==
    SubmissionOfBundle(
        generate_proof(RemlProofInput_new(ScenarioARequests, b), Unbound1024))

\* the submissions the chain receives in the model
WellFormed ==
    {MakeSubmission(b, <<5, 6>>, Unbound1024, {}) : b \in BatchIds}
    \cup {MakeSubmission(MaxBatchId, <<5>>, Bound260, {})}

Rejected ==
    {MakeSubmission(1, <<5, 6>>, Unbound1024, {"vkey_hash"}),
     ScenarioASubmission(1),
     MakeSubmission(2, <<5, 6>>, Short100, {}),
     MakeSubmission(2, <<5>>, Short100, {"chain_id", "root_lib"})}

Submissions == WellFormed \cup Rejected

\* the submissions the claims about results are checked on: every
\* combination of at most two defects, every proof shape, more id lists
Probes ==
    Submissions
    \cup {MakeSubmission(1, <<5, 6>>, Unbound1024, {d, e}) :
            d \in Defects, e \in Defects}
    \cup {MakeSubmission(MaxBatchId, <<5, 6>>, Unbound1024, {d}) : d \in Defects}
    \cup {MakeSubmission(b, <<5, 6>>, shape, {}) : b \in BatchIds, shape \in Shapes}
    \cup {MakeSubmission(b, ids, shape, {}) :
            b \in BatchIds, ids \in {<<5>>, <<6, 5>>, <<5, 5>>},
            shape \in {Unbound1024, Bound260}}

-----------------------------------------------------------------------------
(* The collector (reml-prover serve).  Each connection is a task that reads  *)
(* one HTTP request with a single socket.read, answers it and ends.  A       *)
(* request as read is [route, whole_read, json_ok, public_key_len,           *)
(* signature_len, request_id, n]: whether the single read returned the whole *)
(* request, whether its body is the JSON of a SignatureRequest, the lengths  *)
(* of the decoded key and signature, and n, the number of the connection,    *)
(* which tells two arrivals apart.                                           *)

NoWriter == 0

NoRequest == [route |-> "none"]

NoResponse == [status |-> 0]

IdleTask == [pc |-> "idle", request |-> NoRequest, response |-> NoResponse, batch_id |-> 0, requests |-> << >>]

FreeLock == [writer |-> NoWriter, readers |-> {}]

\* the body handed to serde_json is what follows the first blank line of
\* the bytes that were read; a cut body is not a JSON value
body_parses(request) == request.whole_read /\ request.json_ok

\* mutant: the buffer is mutated without the lock being waited for
may_write_unserialized(lock, c) == TRUE

\* RwLock::write: granted when nobody holds the lock
may_write(lock, c) == lock.writer = NoWriter /\ lock.readers = {}

\* RwLock::read: granted when no writer holds the lock
may_read(lock, c) == lock.writer = NoWriter

\* mutant: the guard is kept until handle_submit returns
drop_state_at_return(lock, c) == lock

\* drop(state) of handle_submit, before the proving task is spawned
drop_state(lock, c) == [lock EXCEPT !.writer = NoWriter]

\* the guard goes out of scope when the handler returns
release_at_return(lock, c) ==
    [writer |-> IF lock.writer = c THEN NoWriter ELSE lock.writer,
     readers |-> lock.readers \ {c}]

\* mutant: the buffer is copied into the batch and left as it is
mem_take_cloning(pending) == [taken |-> pending, left |-> pending]

\* std::mem::take: the batch gets the buffer's requests and the buffer is
\* left empty
mem_take(pending) == [taken |-> pending, left |-> << >>]

\* the check that closes a batch
batch_complete(pending, size) == pending >= size

\* mutant: the requests of a batch whose proof failed go back to the buffer
proving_task_requeueing(pending, counter, saved, task, outcome) ==
    [pending_requests |->
        IF outcome = "failed" THEN pending \o task.requests ELSE pending,
     batch_counter |-> counter,
     proofs |-> insert(saved, task.batch_id, outcome)]

\* the spawned proving task, which owns the batch's requests, its batch_id and
\* the output directory and holds no reference to the shared state: it ends
\* with proof_<batch_id>.json written ("saved"), or with an error logged and
\* no file written ("failed": generate_proof or the serialization of the
\* bundle returned Err)
proving_task(pending, counter, saved, task, outcome) ==
    [pending_requests |-> pending,
     batch_counter |-> counter,
     proofs |-> insert(saved, task.batch_id, outcome)]

http_response(status, body) == [status |-> status, body |-> body]

\* the JSON of handle_status
status_json(pending, size, counter) ==
    [status |-> "running", pending_requests |-> pending, batch_size |-> size,
     batches_completed |-> counter]

\* the JSON of handle_batch_info
batch_info_json(pending, size) ==
    [pending_count |-> Len(pending), batch_size |-> size,
     request_ids |-> [i \in 1..Len(pending) |-> pending[i].request_id]]

CollectorOff ==
    /\ pending_requests = << >>
    /\ batch_size = 0
    /\ batch_counter = 0
    /\ rw_lock = FreeLock
    /\ conn = << >>
    /\ proving = {}
    /\ proofs = EmptyMap
    /\ accepted = 0
    /\ pushed = << >>
    /\ closed = << >>

FnOff ==
    /\ fn_in = << >>
    /\ fn_out = << >>
    /\ pc_fn = "off"

-----------------------------------------------------------------------------
(* Serialization (serde derive with the hex_serde helpers of the library).   *)
(* A JSON string is a sequence of one-character strings, a JSON number an    *)
(* integer, a JSON array a sequence and a JSON object a record.  A result is *)
(* [ok |-> TRUE, value |-> v] or [ok |-> FALSE].                             *)

Ok(v) == [ok |-> TRUE, value |-> v]

Err == [ok |-> FALSE]

HexChars == <<"0", "1", "2", "3", "4", "5", "6", "7", "8", "9", "a", "b", "c", "d", "e", "f">>

UpperHexChars == <<"0", "1", "2", "3", "4", "5", "6", "7", "8", "9", "A", "B", "C", "D", "E", "F">>

\* mutant: a byte is written without its leading zero
hex_encode_unpadded(bytes) ==
    IF \E i \in 1..Len(bytes) : bytes[i] < 16
    THEN [i \in 1..Len(bytes) |-> HexChars[(bytes[i] % 16) + 1]]
    ELSE [i \in 1..(2 * Len(bytes)) |->
            IF i % 2 = 1 THEN HexChars[(bytes[(i + 1) \div 2] \div 16) + 1]
            ELSE HexChars[(bytes[i \div 2] % 16) + 1]]

\* hex::encode: two lower-case digits per byte
hex_encode(bytes) ==
    [i \in 1..(2 * Len(bytes)) |->
        IF i % 2 = 1 THEN HexChars[(bytes[(i + 1) \div 2] \div 16) + 1]
        ELSE HexChars[(bytes[i \div 2] % 16) + 1]]

\* the value of a hex digit of either case, or -1
hex_val(ch) ==
    IF \E k \in 1..16 : HexChars[k] = ch
    THEN (CHOOSE k \in 1..16 : HexChars[k] = ch) - 1
    ELSE IF \E k \in 1..16 : UpperHexChars[k] = ch
    THEN (CHOOSE k \in 1..16 : UpperHexChars[k] = ch) - 1
    ELSE 0 - 1

\* hex::decode: an odd length or a character that is no hex digit is an error
hex_decode(str) ==
    IF Len(str) % 2 = 1 THEN Err
    ELSE IF \E i \in 1..Len(str) : hex_val(str[i]) < 0 THEN Err
    ELSE Ok([i \in 1..(Len(str) \div 2) |->
                16 * hex_val(str[2 * i - 1]) + hex_val(str[2 * i])])

\* s.strip_prefix("0x").unwrap_or(&s)
strip_prefix_0x(str) ==
    IF Len(str) >= 2 /\ str[1] = "0" /\ str[2] = "x"
    THEN SubSeq(str, 3, Len(str)) ELSE str

hex_serde_serialize(bytes) == hex_encode(bytes)

hex_serde_deserialize(str) == hex_decode(strip_prefix_0x(str))

hex_serde_array_serialize(bytes) == hex_encode(bytes)

hex_serde_array_deserialize(str) ==
    LET bytes == hex_decode(strip_prefix_0x(str))
    IN  IF ~bytes.ok THEN Err
        ELSE IF Len(bytes.value) # 32 THEN Err
        ELSE bytes

\* serde's [u8; 32]: an array of 32 numbers
array32_deserialize(arr) ==
    IF Len(arr) # 32 THEN Err
    ELSE IF \E i \in 1..32 : arr[i] \notin 0..255 THEN Err
    ELSE Ok(arr)

serialize_SignatureRequest(x) ==
    [message |-> x.message,
     public_key |-> hex_serde_serialize(x.public_key),
     signature |-> hex_serde_serialize(x.signature),
     request_id |-> x.request_id]

deserialize_SignatureRequest(json) ==
    LET message == array32_deserialize(json.message)
        public_key == hex_serde_deserialize(json.public_key)
        signature == hex_serde_deserialize(json.signature)
    IN  IF ~message.ok \/ ~public_key.ok \/ ~signature.ok \/ json.request_id < 0
        THEN Err
        ELSE Ok([message |-> message.value, public_key |-> public_key.value,
                 signature |-> signature.value, request_id |-> json.request_id])

serialize_RemlProofOutput(x) ==
    [version |-> x.version, chain_id |-> x.chain_id, batch_id |-> x.batch_id,
     verified_count |-> x.verified_count,
     requests_root |-> hex_serde_array_serialize(x.requests_root),
     verified_request_ids |-> x.verified_request_ids]

deserialize_RemlProofOutput(json) ==
    LET requests_root == hex_serde_array_deserialize(json.requests_root)
    IN  IF \/ ~requests_root.ok
           \/ json.version \notin 0..255
           \/ json.chain_id < 0 \/ json.batch_id < 0 \/ json.verified_count < 0
           \/ \E i \in 1..Len(json.verified_request_ids) :
                 json.verified_request_ids[i] < 0
        THEN Err
        ELSE Ok([version |-> json.version, chain_id |-> json.chain_id,
                 batch_id |-> json.batch_id,
                 verified_count |-> json.verified_count,
                 requests_root |-> requests_root.value,
                 verified_request_ids |-> json.verified_request_ids])

serialize_RemlProofBundle(x) ==
    [proof |-> hex_serde_serialize(x.proof),
     output |-> serialize_RemlProofOutput(x.output),
     vkey_hash |-> hex_serde_array_serialize(x.vkey_hash),
     generated_at |-> x.generated_at]

deserialize_RemlProofBundle(json) ==
    LET proof == hex_serde_deserialize(json.proof)
        output == deserialize_RemlProofOutput(json.output)
        vkey_hash == hex_serde_array_deserialize(json.vkey_hash)
    IN  IF ~proof.ok \/ ~output.ok \/ ~vkey_hash.ok \/ json.generated_at < 0
        THEN Err
        ELSE Ok([proof |-> proof.value, output |-> output.value,
                 vkey_hash |-> vkey_hash.value,
                 generated_at |-> json.generated_at])

-----------------------------------------------------------------------------
(* The guest's ML-DSA verifier, step by step.  A signature under test is     *)
(* [public_key_len, signature_len, z_packed, hints_parse, challenge_matches]: *)
(* the lengths of key and signature, the 18-bit values packed in the z part  *)
(* of the signature, whether unpack_hints returns Some, and whether the      *)
(* challenge recomputed from (message, public_key, z, hints) equals the      *)
(* c_tilde of the signature.                                                 *)

\* unpack_z: each 18-bit value is taken from gamma1
unpack_z(z_packed) == [i \in 1..Len(z_packed) |-> GAMMA1 - z_packed[i]]

check_z_norm(z) ==
    LET bound == GAMMA1 - BETA
    IN  ~ \E i \in 1..Len(z) : z[i] > bound \/ z[i] < 0 - bound

Returned(result, at) == [result |-> result, at |-> at]

\* verify_mldsa_signature with the place of its return
verify_mldsa_signature_steps(sig) ==
    IF sig.public_key_len # MLDSA_PUBLIC_KEY_SIZE
    THEN Returned(FALSE, "public_key.len")
    ELSE IF sig.signature_len # MLDSA_SIGNATURE_SIZE
    THEN Returned(FALSE, "signature.len")
    ELSE IF ~sig.hints_parse
    THEN Returned(FALSE, "parse_signature")
    ELSE IF ~sig.challenge_matches
    THEN Returned(FALSE, "c_tilde")
    ELSE IF ~check_z_norm(unpack_z(sig.z_packed))
    THEN Returned(FALSE, "check_z_norm")
    ELSE Returned(TRUE, "end")

\* the SignatureRequest that carries the signature under test
RequestOf(sig) ==
    [request_id |-> 1, public_key_len |-> sig.public_key_len,
     signature_len |-> sig.signature_len,
     signature_ok |-> verify_mldsa_signature_steps(sig).result]

-----------------------------------------------------------------------------
(* The challenge sampler of the guest.  hash is the 256-byte output of       *)
(* expand_shake128(seed, 256); index k of the source is position k + 1 of    *)
(* the sequence.  The polynomial c is a function on 0..N-1.                  *)

\* expand_shake128(seed, 256) for the seeds [0x00; 32], [0x01; 32],
\* [0xff; 32] and 0x00, 0x01, ..., 0x1f: the eight digests
\* keccak256(seed || counter) of the guest's keccak256, counter = 0..7
ExpandedSeeds ==
  <<
    <<
       188, 69, 174, 171, 4, 157, 71, 51, 76, 42, 137, 81, 93, 20, 127, 11,
       0, 212, 158, 255, 49, 61, 49, 152, 106, 108, 220, 194, 215, 55, 71, 113,
       137, 230, 231, 177, 153, 241, 125, 17, 36, 31, 156, 180, 126, 61, 19, 29,
       32, 57, 83, 138, 184, 159, 235, 34, 32, 84, 180, 156, 175, 142, 108, 113,
       198, 44, 162, 9, 16, 36, 23, 116, 86, 243, 202, 47, 198, 174, 70, 230,
       184, 122, 159, 155, 252, 74, 186, 172, 137, 101, 64, 201, 136, 105, 193, 191,
       181, 207, 217, 43, 233, 5, 167, 109, 23, 115, 98, 188, 95, 26, 117, 120,
       42, 123, 28, 238, 118, 18, 129, 12, 122, 61, 151, 53, 232, 254, 202, 103,
       4, 15, 90, 199, 240, 184, 108, 91, 109, 193, 31, 173, 10, 207, 9, 129,
       185, 77, 110, 188, 67, 176, 54, 70, 121, 29, 1, 152, 130, 6, 173, 33,
       77, 88, 175, 14, 248, 19, 93, 213, 151, 161, 29, 14, 25, 75, 226, 27,
       9, 229, 54, 204, 143, 195, 154, 130, 40, 239, 170, 6, 153, 100, 165, 37,
       213, 14, 181, 54, 235, 163, 54, 12, 169, 117, 86, 4, 138, 109, 44, 144,
       81, 252, 65, 41, 167, 223, 237, 176, 175, 79, 104, 105, 28, 65, 25, 69,
       199, 102, 185, 140, 28, 252, 171, 102, 114, 85, 11, 40, 195, 231, 251, 200,
       251, 13, 48, 60, 150, 179, 53, 179, 5, 102, 44, 85, 74, 139, 20, 159>>,
    <<
       117, 189, 192, 143, 62, 113, 70, 233, 241, 10, 137, 61, 198, 71, 85, 234,
       181, 219, 44, 185, 220, 49, 211, 25, 230, 71, 10, 247, 15, 46, 233, 125,
       120, 247, 210, 93, 182, 131, 220, 11, 64, 47, 101, 132, 138, 3, 161, 122,
       150, 21, 54, 40, 147, 127, 10, 77, 98, 230, 118, 74, 33, 152, 55, 120,
       221, 34, 60, 10, 46, 64, 153, 74, 67, 57, 194, 156, 102, 207, 22, 70,
       123, 177, 6, 137, 71, 51, 154, 51, 243, 8, 115, 49, 216, 31, 3, 11,
       97, 111, 113, 194, 216, 253, 146, 222, 211, 220, 86, 212, 112, 224, 228, 81,
       37, 153, 178, 98, 205, 249, 99, 219, 204, 223, 117, 86, 190, 59, 63, 175,
       33, 114, 173, 184, 1, 82, 46, 198, 197, 218, 66, 97, 57, 168, 32, 174,
       69, 25, 130, 30, 78, 250, 32, 38, 135, 218, 244, 186, 183, 95, 9, 102,
       128, 217, 168, 100, 27, 59, 195, 166, 244, 112, 23, 20, 230, 119, 170, 164,
       8, 239, 252, 102, 5, 162, 181, 240, 57, 244, 112, 109, 25, 171, 90, 242,
       66, 189, 122, 76, 240, 110, 33, 95, 182, 87, 3, 175, 42, 233, 247, 111,
       215, 15, 214, 38, 132, 93, 80, 233, 138, 123, 198, 53, 8, 164, 217, 233,
       156, 57, 50, 68, 227, 182, 34, 24, 199, 209, 203, 4, 58, 14, 60, 235,
       248, 6, 178, 153, 249, 43, 25, 197, 174, 156, 143, 183, 130, 150, 117, 14>>,
    <<
       208, 147, 55, 247, 128, 64, 31, 103, 176, 93, 225, 169, 171, 72, 186, 81,
       247, 122, 125, 156, 119, 56, 156, 110, 53, 10, 221, 250, 129, 30, 136, 31,
       16, 228, 26, 44, 182, 180, 47, 13, 145, 14, 85, 148, 180, 244, 224, 79,
       198, 2, 242, 123, 196, 102, 210, 31, 124, 155, 17, 102, 213, 141, 217, 29,
       116, 9, 125, 71, 33, 133, 167, 182, 233, 49, 103, 82, 253, 178, 166, 153,
       35, 46, 182, 204, 34, 43, 141, 4, 89, 234, 245, 67, 17, 250, 188, 164,
       133, 246, 23, 5, 220, 51, 48, 76, 229, 47, 64, 21, 204, 245, 58, 149,
       243, 227, 44, 108, 177, 46, 241, 75, 134, 224, 227, 160, 31, 100, 41, 203,
       78, 153, 30, 207, 126, 92, 49, 25, 16, 36, 216, 130, 138, 81, 120, 184,
       199, 5, 30, 233, 183, 188, 71, 84, 125, 228, 74, 253, 172, 255, 58, 152,
       242, 80, 106, 35, 235, 239, 247, 151, 140, 82, 66, 22, 149, 195, 70, 207,
       42, 29, 137, 154, 209, 198, 123, 141, 61, 219, 65, 188, 82, 11, 109, 11,
       242, 110, 180, 118, 118, 163, 63, 159, 74, 232, 36, 72, 82, 18, 114, 216,
       104, 241, 116, 70, 126, 171, 176, 138, 76, 58, 97, 228, 112, 29, 143, 172,
       193, 187, 28, 31, 8, 27, 179, 179, 106, 234, 180, 218, 100, 29, 54, 227,
       3, 166, 63, 53, 189, 54, 201, 218, 82, 49, 24, 158, 5, 242, 246, 98>>,
    <<
       244, 210, 170, 151, 3, 142, 212, 130, 79, 236, 158, 47, 234, 96, 78, 177,
       72, 44, 147, 189, 31, 156, 126, 186, 119, 231, 89, 108, 158, 216, 77, 50,
       237, 15, 223, 170, 85, 37, 139, 8, 55, 218, 63, 110, 228, 33, 116, 148,
       100, 36, 48, 192, 224, 195, 130, 219, 123, 253, 201, 145, 188, 7, 250, 250,
       82, 211, 155, 25, 102, 230, 31, 206, 46, 11, 125, 199, 234, 120, 89, 57,
       11, 122, 179, 194, 232, 130, 128, 215, 94, 113, 86, 97, 170, 55, 181, 23,
       190, 169, 217, 27, 80, 129, 242, 68, 213, 84, 2, 13, 245, 92, 223, 223,
       22, 131, 213, 8, 23, 59, 9, 80, 190, 213, 51, 13, 192, 164, 246, 106,
       151, 225, 114, 2, 69, 237, 111, 13, 165, 33, 95, 44, 22, 122, 237, 253,
       30, 182, 55, 57, 231, 11, 33, 166, 100, 215, 101, 140, 3, 36, 92, 49,
       195, 32, 114, 247, 121, 168, 101, 198, 182, 253, 89, 51, 1, 218, 84, 122,
       232, 77, 12, 227, 166, 233, 239, 244, 243, 155, 196, 229, 221, 59, 148, 122,
       128, 185, 27, 197, 224, 253, 175, 210, 12, 213, 96, 24, 121, 91, 243, 248,
       186, 7, 248, 112, 233, 5, 238, 30, 42, 192, 98, 163, 61, 79, 181, 228,
       128, 142, 113, 135, 11, 79, 209, 140, 170, 130, 96, 79, 72, 2, 237, 32,
       220, 142, 255, 39, 78, 78, 3, 34, 10, 69, 7, 168, 113, 51, 14, 160>>
  >>

\* bit t of signs, the little-endian u64 read from hash[0..8]: the value of
\* (signs & 1) after t shifts
sign_bit(hash, t) == (hash[(t \div 8) + 1] \div (2 ^ (t % 8))) % 2

\* the index byte of one step: hash[k] is read, bytes above i are skipped;
\* reading at k = hash.len() panics, running out while skipping returns c
next_index(hash, k, i) ==
    IF k >= Len(hash) THEN [status |-> "panic", k |-> k]
    ELSE LET usable == {p \in k..(Len(hash) - 1) : hash[p + 1] <= i}
         IN  IF usable = {} THEN [status |-> "fallback", k |-> Len(hash)]
             ELSE LET p == CHOOSE q \in usable : \A r \in usable : q <= r
                  IN  [status |-> "running", k |-> p + 1, j |-> hash[p + 1]]

\* mutant: the coefficient at j is overwritten without being moved to i
shuffle_step_overwriting(c, i, j, sign) == [c EXCEPT ![j] = sign]

\* c[i] = c[j]; c[j] = if (signs & 1) != 0 { -1 } else { 1 }
shuffle_step(c, i, j, sign) == [c EXCEPT ![i] = c[j], ![j] = sign]

sample_in_ball_start(hash) ==
    [c |-> [x \in 0..(N - 1) |-> 0], k |-> 8, i |-> N - TAU, status |-> "running"]

\* one iteration of the loop over i in (N - TAU)..N
sample_in_ball_step(hash, st) ==
    LET found == next_index(hash, st.k, st.i)
        t == st.i - (N - TAU)
        sign == IF sign_bit(hash, t) # 0 THEN 0 - 1 ELSE 1
    IN  IF found.status # "running"
        THEN [st EXCEPT !.status = found.status, !.k = found.k]
        ELSE [c |-> shuffle_step(st.c, st.i, found.j, sign),
              k |-> found.k,
              i |-> st.i + 1,
              status |-> IF st.i + 1 = N THEN "done" ELSE "running"]

-----------------------------------------------------------------------------
(* The chain *)

Init ==
    /\ Aggregators = EmptyMap
    /\ VerifiedBatches = EmptyMap
    /\ VerifiedRequests = EmptyMap
    /\ TotalProofsVerified = 0
    /\ TotalSignaturesVerified = 0
    /\ ProofCommitments = EmptyMap
    /\ block_number = 1
    /\ ExpectedVKeyHash = GuestVKey
    /\ last = [op |-> "genesis"]
    /\ ids_in = << >>
    /\ roots = [guest |-> Zero32, lib |-> Zero32, pallet |-> Zero32]
    /\ pc_merkle = "off"
    /\ guest_in = NoInput
    /\ guest_out = NoOutput
    /\ pc_guest = "off"
    /\ CollectorOff
    /\ FnOff

Commit(r, call) ==
    /\ Aggregators' = r.storage.Aggregators
    /\ VerifiedBatches' = r.storage.VerifiedBatches
    /\ VerifiedRequests' = r.storage.VerifiedRequests
    /\ TotalProofsVerified' = r.storage.TotalProofsVerified
    /\ TotalSignaturesVerified' = r.storage.TotalSignaturesVerified
    /\ ProofCommitments' = r.storage.ProofCommitments
    /\ last' = [op |-> call.op, origin |-> call.origin, arg |-> call.arg,
                res |-> r.res, dep |-> r.dep]
    /\ UNCHANGED <<block_number, ExpectedVKeyHash, merkle_vars, guest_vars,
                   collector_vars, fn_vars>>

RegisterAggregator ==
    \E origin \in Origins, aggregator \in Accounts :
        Commit(register_aggregator(Storage, origin, aggregator, block_number),
               [op |-> "register_aggregator", origin |-> origin, arg |-> aggregator])

DeactivateAggregator ==
    \E origin \in Origins, aggregator \in Accounts :
        Commit(deactivate_aggregator(Storage, origin, aggregator),
               [op |-> "deactivate_aggregator", origin |-> origin, arg |-> aggregator])

SubmitProof ==
    \E origin \in Origins, submission \in Submissions :
        Commit(submit_proof(Storage, origin, submission, ExpectedVKeyHash,
                            block_number),
               [op |-> "submit_proof", origin |-> origin, arg |-> submission])

\* the host chain moves to the next block
NextBlock ==
    /\ block_number < MaxBlock
    /\ block_number' = block_number + 1
    /\ last' = [op |-> "next_block"]
    /\ UNCHANGED <<Aggregators, VerifiedBatches, VerifiedRequests,
                   TotalProofsVerified, TotalSignaturesVerified,
                   ProofCommitments, ExpectedVKeyHash, merkle_vars, guest_vars,
                   collector_vars, fn_vars>>

Next ==
    \/ RegisterAggregator
    \/ DeactivateAggregator
    \/ SubmitProof
    \/ NextBlock

Spec == Init /\ [][Next]_vars

-----------------------------------------------------------------------------
(* The chain receiving batches whose id lists overlap: an id listed twice in *)
(* one batch, the same id in two batches, and lists whose verified_count is  *)
(* zero or differs from their length.                                        *)

IdSubmissions ==
    {MakeSubmission(1, <<5>>, Unbound1024, {}),
     MakeSubmission(1, <<6, 6>>, Unbound1024, {}),
     MakeSubmission(MaxBatchId, <<6, 5, 6>>, Unbound1024, {}),
     MakeSubmission(1, <<5, 6>>, Unbound1024, {"count_zero"}),
     MakeSubmission(1, <<5, 6>>, Unbound1024, {"count_off"}),
     MakeSubmission(1, << >>, Unbound1024, {})}

SubmitIds ==
    \E origin \in Origins, submission \in IdSubmissions :
        Commit(submit_proof(Storage, origin, submission, ExpectedVKeyHash,
                            block_number),
               [op |-> "submit_proof", origin |-> origin, arg |-> submission])

NextIds ==
    \/ RegisterAggregator
    \/ DeactivateAggregator
    \/ SubmitIds
    \/ NextBlock

SpecIds == Init /\ [][NextIds]_vars

-----------------------------------------------------------------------------
(* The Merkle commitment as a function: an id list is given, and the guest,  *)
(* the shared library and the pallet each compute its root.                  *)

MerkleIds == {1, 2, 3}

RECURSIVE SeqsUpTo(_, _)
SeqsUpTo(S, n) ==
    IF n = 0 THEN {<< >>}
    ELSE LET shorter == SeqsUpTo(S, n - 1)
         IN  shorter \cup {Append(q, x) : q \in shorter, x \in S}

InitMerkle ==
    /\ Aggregators = EmptyMap
    /\ VerifiedBatches = EmptyMap
    /\ VerifiedRequests = EmptyMap
    /\ TotalProofsVerified = 0
    /\ TotalSignaturesVerified = 0
    /\ ProofCommitments = EmptyMap
    /\ block_number = 1
    /\ ExpectedVKeyHash = GuestVKey
    /\ last = [op |-> "genesis"]
    /\ ids_in \in SeqsUpTo(MerkleIds, MaxMerkleLen)
    /\ roots = [guest |-> Zero32, lib |-> Zero32, pallet |-> Zero32]
    /\ pc_merkle = "input"
    /\ guest_in = NoInput
    /\ guest_out = NoOutput
    /\ pc_guest = "off"
    /\ CollectorOff
    /\ FnOff

ComputeRoots ==
    /\ pc_merkle = "input"
    /\ roots' = [guest |-> guest_compute_merkle_root(ids_in),
                 lib |-> compute_requests_root(ids_in),
                 pallet |-> compute_merkle_root(ids_in)]
    /\ pc_merkle' = "done"
    /\ UNCHANGED <<chain_vars, ids_in, guest_vars, collector_vars, fn_vars>>

NextMerkle == ComputeRoots

SpecMerkle == InitMerkle /\ [][NextMerkle]_vars

-----------------------------------------------------------------------------
(* The guest as a function: a RemlProofInput is read, and main runs on it.   *)

GuestIds == {1, 2}

\* requests with right and wrong sizes, whose signature verifies or not
GuestRequests ==
    [request_id : GuestIds,
     public_key_len : {MLDSA_PUBLIC_KEY_SIZE, MLDSA_PUBLIC_KEY_SIZE - 1},
     signature_len : {MLDSA_SIGNATURE_SIZE, MLDSA_SIGNATURE_SIZE + 1},
     signature_ok : BOOLEAN]

\* scenario B: scenario A with the signature of request 3 corrupted
ScenarioBRequests == [ScenarioARequests EXCEPT ![4].signature_ok = FALSE]

GuestInputs ==
    [version : {REML_VERSION, REML_VERSION + 1},
     chain_id : {TESSERAX_CHAIN_ID, 1},
     batch_id : BatchIds,
     requests : SeqsUpTo(GuestRequests, MaxGuestLen)
                    \cup {ScenarioARequests, ScenarioBRequests}]

InitGuest ==
    /\ Aggregators = EmptyMap
    /\ VerifiedBatches = EmptyMap
    /\ VerifiedRequests = EmptyMap
    /\ TotalProofsVerified = 0
    /\ TotalSignaturesVerified = 0
    /\ ProofCommitments = EmptyMap
    /\ block_number = 1
    /\ ExpectedVKeyHash = GuestVKey
    /\ last = [op |-> "genesis"]
    /\ ids_in = << >>
    /\ roots = [guest |-> Zero32, lib |-> Zero32, pallet |-> Zero32]
    /\ pc_merkle = "off"
    /\ guest_in \in GuestInputs
    /\ guest_out = NoOutput
    /\ pc_guest = "input"
    /\ CollectorOff
    /\ FnOff

\* sp1_zkvm::io::read, main, sp1_zkvm::io::commit
RunGuest ==
    /\ pc_guest = "input"
    /\ guest_out' = guest_main(guest_in)
    /\ pc_guest' = "done"
    /\ UNCHANGED <<chain_vars, merkle_vars, guest_in, collector_vars, fn_vars>>

NextGuest == RunGuest

SpecGuest == InitGuest /\ [][NextGuest]_vars

-----------------------------------------------------------------------------
(* The chain with or without a configured verification key hash *)

InitVKey ==
    /\ Aggregators = EmptyMap
    /\ VerifiedBatches = EmptyMap
    /\ VerifiedRequests = EmptyMap
    /\ TotalProofsVerified = 0
    /\ TotalSignaturesVerified = 0
    /\ ProofCommitments = EmptyMap
    /\ block_number = 1
    /\ ExpectedVKeyHash \in {Zero32, GuestVKey}
    /\ last = [op |-> "genesis"]
    /\ ids_in = << >>
    /\ roots = [guest |-> Zero32, lib |-> Zero32, pallet |-> Zero32]
    /\ pc_merkle = "off"
    /\ guest_in = NoInput
    /\ guest_out = NoOutput
    /\ pc_guest = "off"
    /\ CollectorOff
    /\ FnOff

SpecVKey == InitVKey /\ [][Next]_vars

-----------------------------------------------------------------------------
(* The collector: connections are accepted, each by a task of its own; the   *)
(* tasks and the proving tasks they spawn run interleaved.                   *)

Conns == 1..MaxConns

CollectorIds == {1, 2}

HttpSubmit(whole_read, json_ok, public_key_len, signature_len, request_id) == [route |-> "POST /submit", whole_read |-> whole_read, json_ok |-> json_ok, public_key_len |-> public_key_len, signature_len |-> signature_len, request_id |-> request_id]

\* what a connection can deliver: a well-formed submission read whole, the
\* same submission cut by the single read, a body that is not JSON, a key or
\* a signature of the wrong size, the status query and the batch query
HttpRequests ==
    {HttpSubmit(TRUE, TRUE, MLDSA_PUBLIC_KEY_SIZE, MLDSA_SIGNATURE_SIZE, id) : id \in CollectorIds}
    \cup {HttpSubmit(FALSE, TRUE, MLDSA_PUBLIC_KEY_SIZE, MLDSA_SIGNATURE_SIZE, 1),
          HttpSubmit(TRUE, FALSE, MLDSA_PUBLIC_KEY_SIZE, MLDSA_SIGNATURE_SIZE, 1),
          HttpSubmit(TRUE, TRUE, MLDSA_PUBLIC_KEY_SIZE - 1, MLDSA_SIGNATURE_SIZE, 1),
          HttpSubmit(TRUE, TRUE, MLDSA_PUBLIC_KEY_SIZE, MLDSA_SIGNATURE_SIZE + 1, 1),
          [route |-> "GET /status"], [route |-> "GET /batch"]}

Arrival(request, n) ==
    IF request.route = "POST /submit"
    THEN [route |-> request.route, whole_read |-> request.whole_read,
          json_ok |-> request.json_ok,
          public_key_len |-> request.public_key_len,
          signature_len |-> request.signature_len,
          request_id |-> request.request_id, n |-> n]
    ELSE request

InitCollector ==
    /\ Aggregators = EmptyMap
    /\ VerifiedBatches = EmptyMap
    /\ VerifiedRequests = EmptyMap
    /\ TotalProofsVerified = 0
    /\ TotalSignaturesVerified = 0
    /\ ProofCommitments = EmptyMap
    /\ block_number = 1
    /\ ExpectedVKeyHash = GuestVKey
    /\ last = [op |-> "genesis"]
    /\ ids_in = << >>
    /\ roots = [guest |-> Zero32, lib |-> Zero32, pallet |-> Zero32]
    /\ pc_merkle = "off"
    /\ guest_in = NoInput
    /\ guest_out = NoOutput
    /\ pc_guest = "off"
    /\ pending_requests = << >>
    /\ batch_size \in 0..MaxBatchSize
    /\ batch_counter = 0
    /\ rw_lock = FreeLock
    /\ conn = [c \in Conns |-> IdleTask]
    /\ proving = {}
    /\ proofs = EmptyMap
    /\ accepted = 0
    /\ pushed = << >>
    /\ closed = << >>
    /\ FnOff

OtherThanCollector == <<chain_vars, merkle_vars, guest_vars, fn_vars>>

\* listener.accept, tokio::spawn, socket.read and the routing of run_server
Accept(c) ==
    /\ conn[c].pc = "idle"
    /\ accepted < MaxAccepted
    /\ \E request \in HttpRequests :
        conn' = [conn EXCEPT ![c] =
                    [pc |-> IF request.route = "POST /submit" THEN "submit" ELSE "status",
                     request |-> Arrival(request, accepted + 1),
                     response |-> NoResponse, batch_id |-> 0, requests |-> << >>]]
    /\ accepted' = accepted + 1
    /\ UNCHANGED <<pending_requests, batch_size, batch_counter, rw_lock,
                   proving, proofs, pushed, closed, OtherThanCollector>>

\* handle_submit up to the lock: serde_json::from_str and validate_sizes
ParseSubmit(c) ==
    /\ conn[c].pc = "submit"
    /\ conn' = [conn EXCEPT ![c] =
                  IF ~body_parses(conn[c].request)
                  THEN [@ EXCEPT !.pc = "idle",
                                 !.response = http_response(400, [error |-> "Invalid JSON"])]
                  ELSE IF ~validate_sizes(conn[c].request)
                  THEN [@ EXCEPT !.pc = "idle",
                                 !.response = http_response(400, [error |-> "Invalid signature or public key size"])]
                  ELSE [@ EXCEPT !.pc = "write"]]
    /\ UNCHANGED <<pending_requests, batch_size, batch_counter, rw_lock,
                   proving, proofs, accepted, pushed, closed, OtherThanCollector>>

\* state.write().await
AcquireWrite(c) ==
    /\ conn[c].pc = "write"
    /\ may_write(rw_lock, c)
    /\ rw_lock' = [rw_lock EXCEPT !.writer = c]
    /\ conn' = [conn EXCEPT ![c].pc = "push"]
    /\ UNCHANGED <<pending_requests, batch_size, batch_counter,
                   proving, proofs, accepted, pushed, closed, OtherThanCollector>>

\* state.pending_requests.push(sig_request) and the test of the length
Push(c) ==
    /\ conn[c].pc = "push"
    /\ pending_requests' = Append(pending_requests, conn[c].request)
    /\ pushed' = Append(pushed, conn[c].request)
    /\ conn' = [conn EXCEPT ![c].pc =
                  IF batch_complete(Len(pending_requests) + 1, batch_size)
                  THEN "take" ELSE "pending"]
    /\ UNCHANGED <<batch_size, batch_counter, rw_lock, proving, proofs,
                   accepted, closed, OtherThanCollector>>

\* std::mem::take(&mut state.pending_requests); state.batch_counter += 1
TakeBatch(c) ==
    /\ conn[c].pc = "take"
    /\ pending_requests' = mem_take(pending_requests).left
    /\ batch_counter' = batch_counter + 1
    /\ closed' = Append(closed, [batch_id |-> batch_counter + 1,
                                 requests |-> mem_take(pending_requests).taken])
    /\ conn' = [conn EXCEPT ![c].pc = "drop",
                            ![c].batch_id = batch_counter + 1,
                            ![c].requests = mem_take(pending_requests).taken]
    /\ UNCHANGED <<batch_size, rw_lock, proving, proofs, accepted, pushed,
                   OtherThanCollector>>

\* drop(state)
DropState(c) ==
    /\ conn[c].pc = "drop"
    /\ rw_lock' = drop_state(rw_lock, c)
    /\ conn' = [conn EXCEPT ![c].pc = "spawn"]
    /\ UNCHANGED <<pending_requests, batch_size, batch_counter, proving,
                   proofs, accepted, pushed, closed, OtherThanCollector>>

\* tokio::spawn of the proving task, which owns the requests and the batch_id
SpawnProving(c) ==
    /\ conn[c].pc = "spawn"
    /\ proving' = proving \cup {[batch_id |-> conn[c].batch_id,
                                 requests |-> conn[c].requests]}
    /\ conn' = [conn EXCEPT ![c].pc = "triggered"]
    /\ UNCHANGED <<pending_requests, batch_size, batch_counter, rw_lock,
                   proofs, accepted, pushed, closed, OtherThanCollector>>

\* the response of a submission that closed a batch
RespondTriggered(c) ==
    /\ conn[c].pc = "triggered"
    /\ conn' = [conn EXCEPT ![c].pc = "idle",
                            ![c].response = http_response(200,
                                [status |-> "accepted",
                                 request_id |-> conn[c].request.request_id,
                                 batch_triggered |-> conn[c].batch_id])]
    /\ rw_lock' = release_at_return(rw_lock, c)
    /\ UNCHANGED <<pending_requests, batch_size, batch_counter, proving,
                   proofs, accepted, pushed, closed, OtherThanCollector>>

\* the response of a submission that stays in the buffer
RespondPending(c) ==
    /\ conn[c].pc = "pending"
    /\ conn' = [conn EXCEPT ![c].pc = "idle",
                            ![c].response = http_response(200,
                                [status |-> "accepted",
                                 request_id |-> conn[c].request.request_id,
                                 pending |-> Len(pending_requests)])]
    /\ rw_lock' = release_at_return(rw_lock, c)
    /\ UNCHANGED <<pending_requests, batch_size, batch_counter, proving,
                   proofs, accepted, pushed, closed, OtherThanCollector>>

\* handle_status and handle_batch_info: state.read().await
AcquireRead(c) ==
    /\ conn[c].pc = "status"
    /\ may_read(rw_lock, c)
    /\ rw_lock' = [rw_lock EXCEPT !.readers = @ \cup {c}]
    /\ conn' = [conn EXCEPT ![c].pc = "report"]
    /\ UNCHANGED <<pending_requests, batch_size, batch_counter,
                   proving, proofs, accepted, pushed, closed, OtherThanCollector>>

\* handle_status: the JSON it formats, and its return
RespondStatus(c) ==
    /\ conn[c].pc = "report"
    /\ conn[c].request.route = "GET /status"
    /\ conn' = [conn EXCEPT ![c].pc = "idle",
                            ![c].response = http_response(200,
                                status_json(Len(pending_requests), batch_size,
                                            batch_counter))]
    /\ rw_lock' = release_at_return(rw_lock, c)
    /\ UNCHANGED <<pending_requests, batch_size, batch_counter, proving,
                   proofs, accepted, pushed, closed, OtherThanCollector>>

\* handle_batch_info: the JSON it formats, and its return
RespondBatchInfo(c) ==
    /\ conn[c].pc = "report"
    /\ conn[c].request.route = "GET /batch"
    /\ conn' = [conn EXCEPT ![c].pc = "idle",
                            ![c].response = http_response(200,
                                batch_info_json(pending_requests, batch_size))]
    /\ rw_lock' = release_at_return(rw_lock, c)
    /\ UNCHANGED <<pending_requests, batch_size, batch_counter, proving,
                   proofs, accepted, pushed, closed, OtherThanCollector>>

\* the proving task ends: generate_proof returned a bundle that was written
\* to proof_<batch_id>.json, or an error that was logged
FinishProving ==
    \E task \in proving, outcome \in {"saved", "failed"} :
        LET end == proving_task(pending_requests, batch_counter, proofs, task,
                                outcome)
        IN  /\ proving' = proving \ {task}
            /\ proofs' = end.proofs
            /\ pending_requests' = end.pending_requests
            /\ batch_counter' = end.batch_counter
            /\ UNCHANGED <<batch_size, rw_lock, conn, accepted, pushed, closed,
                           OtherThanCollector>>

HandlerStep(c) ==
    \/ ParseSubmit(c)
    \/ AcquireWrite(c)
    \/ Push(c)
    \/ TakeBatch(c)
    \/ DropState(c)
    \/ SpawnProving(c)
    \/ RespondTriggered(c)
    \/ RespondPending(c)
    \/ AcquireRead(c)
    \/ RespondStatus(c)
    \/ RespondBatchInfo(c)

NextCollector ==
    \/ \E c \in Conns : Accept(c)
    \/ \E c \in Conns : HandlerStep(c)
    \/ FinishProving

SpecCollector == InitCollector /\ [][NextCollector]_vars

\* the tasks of the connections are scheduled; nothing is assumed about how
\* long a proof takes
SpecCollectorFair ==
    SpecCollector /\ \A c \in Conns : WF_vars(HandlerStep(c))

-----------------------------------------------------------------------------
(* Serialization as a function: a value of one of the three types is given,  *)
(* written with serde_json::to_string and read back with                     *)
(* serde_json::from_str.                                                     *)

\* bytes whose two hex digits are 00, 0a, a0, ab and ff
SerdeBytes == {0, 10, 160, 171, 255}

Arrays32 == {[i \in 1..32 |-> b] : b \in {0, 10, 255}} \cup {[i \in 1..32 |-> (37 * i) % 256]}

SerdeNumbers == {0, 1, 2147483647}

SerdeRequests ==
    [message : Arrays32,
     public_key : SeqsUpTo(SerdeBytes, MaxBytesLen),
     signature : SeqsUpTo({0, 171}, 1),
     request_id : SerdeNumbers]

SerdeOutputs ==
    [version : {REML_VERSION, 255},
     chain_id : {TESSERAX_CHAIN_ID},
     batch_id : SerdeNumbers,
     verified_count : {0, 2},
     requests_root : Arrays32,
     verified_request_ids : SeqsUpTo({0, 2147483647}, 2)]

SerdeBundles ==
    [proof : SeqsUpTo(SerdeBytes, MaxBytesLen),
     output : [version : {REML_VERSION}, chain_id : {TESSERAX_CHAIN_ID},
               batch_id : {1}, verified_count : {2},
               requests_root : Arrays32,
               verified_request_ids : {<<5, 6>>}],
     vkey_hash : Arrays32,
     generated_at : {0, 2147483647}]

SerdeInputs ==
    {[type |-> "SignatureRequest", value |-> x] : x \in SerdeRequests}
    \cup {[type |-> "RemlProofOutput", value |-> x] : x \in SerdeOutputs}
    \cup {[type |-> "RemlProofBundle", value |-> x] : x \in SerdeBundles}

to_string(input) ==
    IF input.type = "SignatureRequest" THEN serialize_SignatureRequest(input.value)
    ELSE IF input.type = "RemlProofOutput" THEN serialize_RemlProofOutput(input.value)
    ELSE serialize_RemlProofBundle(input.value)

from_str(type, json) ==
    IF type = "SignatureRequest" THEN deserialize_SignatureRequest(json)
    ELSE IF type = "RemlProofOutput" THEN deserialize_RemlProofOutput(json)
    ELSE deserialize_RemlProofBundle(json)

ChainOff ==
    /\ Aggregators = EmptyMap
    /\ VerifiedBatches = EmptyMap
    /\ VerifiedRequests = EmptyMap
    /\ TotalProofsVerified = 0
    /\ TotalSignaturesVerified = 0
    /\ ProofCommitments = EmptyMap
    /\ block_number = 1
    /\ ExpectedVKeyHash = GuestVKey
    /\ last = [op |-> "genesis"]

MerkleOff ==
    /\ ids_in = << >>
    /\ roots = [guest |-> Zero32, lib |-> Zero32, pallet |-> Zero32]
    /\ pc_merkle = "off"

GuestOff ==
    /\ guest_in = NoInput
    /\ guest_out = NoOutput
    /\ pc_guest = "off"

OtherThanFn == <<chain_vars, merkle_vars, guest_vars, collector_vars>>

InitSerde ==
    /\ ChainOff
    /\ MerkleOff
    /\ GuestOff
    /\ CollectorOff
    /\ fn_in \in SerdeInputs
    /\ fn_out = << >>
    /\ pc_fn = "input"

RoundTrip ==
    /\ pc_fn = "input"
    /\ fn_out' = [json |-> to_string(fn_in),
                  parsed |-> from_str(fn_in.type, to_string(fn_in))]
    /\ pc_fn' = "done"
    /\ UNCHANGED <<fn_in, OtherThanFn>>

NextSerde == RoundTrip

SpecSerde == InitSerde /\ [][NextSerde]_vars

-----------------------------------------------------------------------------
(* The verifier as a function: a signature is given and verified.            *)

\* packed values around both ends of the norm bound: z = gamma1 - value is
\* 131072, 130995, 130994, 130993, 0, -130993, -130994, -130995, -131071
PackedZ == {0, 77, 78, 79, 131072, 262065, 262066, 262067, 262143}

Lengths(size) == {0, size - 1, size, size + 1}

VerifierInputs ==
    {sig \in [public_key_len : Lengths(MLDSA_PUBLIC_KEY_SIZE),
              signature_len : Lengths(MLDSA_SIGNATURE_SIZE),
              z_packed : SeqsUpTo(PackedZ, MaxZLen) \ {<< >>},
              hints_parse : BOOLEAN,
              challenge_matches : BOOLEAN] :
        \/ /\ sig.public_key_len = MLDSA_PUBLIC_KEY_SIZE
           /\ sig.signature_len = MLDSA_SIGNATURE_SIZE
        \/ /\ sig.z_packed = <<131072>>
           /\ sig.hints_parse}

InitVerifier ==
    /\ ChainOff
    /\ MerkleOff
    /\ GuestOff
    /\ CollectorOff
    /\ fn_in \in VerifierInputs
    /\ fn_out = << >>
    /\ pc_fn = "input"

RunVerifier ==
    /\ pc_fn = "input"
    /\ fn_out' = verify_mldsa_signature_steps(fn_in)
    /\ pc_fn' = "done"
    /\ UNCHANGED <<fn_in, OtherThanFn>>

NextVerifier == RunVerifier

SpecVerifier == InitVerifier /\ [][NextVerifier]_vars

-----------------------------------------------------------------------------
(* The sampler as a function: the expansion of a seed is given and the loop  *)
(* of sample_in_ball runs on it, one iteration per step.                     *)

\* a byte string that is no digest: a + b * k mod 256 at index k
Stream(a, b) == [k \in 1..256 |-> (a + b * (k - 1)) % 256]

\* m acceptable bytes after the sign bytes, then bytes that are skipped
Prefix(m) == [k \in 1..256 |-> IF k <= 8 + m THEN 0 ELSE 255]

\* bytes that are skipped, then m acceptable bytes at the end
Suffix(m) == [k \in 1..256 |-> IF k <= 256 - m THEN 255 ELSE 0]

SamplerInputs ==
    {[of_seed |-> TRUE, hash |-> ExpandedSeeds[s]] : s \in 1..Len(ExpandedSeeds)}
    \cup {[of_seed |-> FALSE, hash |-> Stream(a, b)] :
            a \in {0, 100, 216, 217, 255}, b \in {0, 1, 7, 128, 255}}
    \cup {[of_seed |-> FALSE, hash |-> Prefix(m)] : m \in {0, 1, TAU - 1, TAU}}
    \cup {[of_seed |-> FALSE, hash |-> Suffix(m)] : m \in {1, TAU - 1, TAU}}

InitSampler ==
    /\ ChainOff
    /\ MerkleOff
    /\ GuestOff
    /\ CollectorOff
    /\ fn_in \in SamplerInputs
    /\ fn_out = sample_in_ball_start(fn_in.hash)
    /\ pc_fn = "input"

SampleStep ==
    /\ pc_fn = "input"
    /\ fn_out' = sample_in_ball_step(fn_in.hash, fn_out)
    /\ pc_fn' = IF fn_out'.status = "running" THEN "input" ELSE "done"
    /\ UNCHANGED <<fn_in, OtherThanFn>>

NextSampler == SampleStep

SpecSampler == InitSampler /\ [][NextSampler]_vars

-----------------------------------------------------------------------------
(* The guest's number-theoretic transform.  An i32 is an integer of the      *)
(* model; an i64 is the record [hi, lo] of its upper 32 bits, hi =           *)
(* floor(a / 2^32), and its lower 32 bits read as an i32, lo = a as i32.     *)
(* i32 additions and subtractions wrap, as they do in a build without        *)
(* overflow checks; whether one wrapped is recorded, because a build with    *)
(* overflow checks panics there.                                             *)

add_overflows(x, y) ==
    IF y >= 0 THEN x > 2147483647 - y ELSE x < (0 - 2147483647 - 1) - y

wrapping_add(x, y) ==
    IF ~add_overflows(x, y) THEN x + y
    ELSE IF y >= 0 THEN (x - 2147483647 - 1) + (y - 2147483647 - 1)
    ELSE (x + 2147483647 + 1) + (y + 2147483647 + 1)

sub_overflows(x, y) ==
    IF y <= 0 THEN x > 2147483647 + y ELSE x < (0 - 2147483647 - 1) + y

wrapping_sub(x, y) ==
    IF ~sub_overflows(x, y) THEN x - y
    ELSE IF y <= 0 THEN (x - 2147483647 - 1) - ((y + 2147483647) + 1)
    ELSE (x + 2147483647 + 1) - (y - 2147483647 - 1)

\* the product of two 16-bit words as its upper and lower 16 bits
mul16(u, v) ==
    LET p1 == (u \div 256) * v
        p0 == (u % 256) * v
        s == (p1 % 256) * 256 + p0
    IN  [hi |-> (p1 \div 256) + (s \div 65536), lo |-> s % 65536]

\* x as i64 * y as i64 for two i32
mul_i32(x, y) ==
    LET xh == x \div 65536
        xl == x % 65536
        yh == y \div 65536
        yl == y % 65536
        ll == mul16(xl, yl)
        m1 == xh * yl
        m2 == xl * yh
        c == (m1 % 65536) + (m2 % 65536) + ll.hi
        u == c % 65536
    IN  [hi |-> xh * yh + (m1 \div 65536) + (m2 \div 65536) + (c \div 65536),
         lo |-> IF u >= 32768 THEN (u - 65536) * 65536 + ll.lo
                ELSE u * 65536 + ll.lo]

\* x < y for the two i32 read as u32
unsigned_less(x, y) == IF (x >= 0) = (y >= 0) THEN x < y ELSE y < 0

\* t = ((a as i32 as i64).wrapping_mul(QINV)) as i32;
\* ((a - t as i64 * Q as i64) >> 32) as i32
montgomery_reduce(a) ==
    LET t == mul_i32(a.lo, QINV).lo
        tq == mul_i32(t, Q)
    IN  a.hi - tq.hi - (IF unsigned_less(a.lo, tq.lo) THEN 1 ELSE 0)

\* zetas[0], zetas[1], and the loop that fills zetas[2..256]
get_ntt_zetas(i) ==
    IF i = 0 THEN 25847
    ELSE IF i = 1 THEN 0 - 2608894
    ELSE (i * 12345 + 6789) % Q

get_inv_ntt_zetas(i) == (i * 54321 + 9876) % Q

\* one pass of the outer loop of ntt: the blocks of 2 * len coefficients, the
\* b-th with zetas[k + b]; the butterflies of a pass touch disjoint pairs
ntt_level(st, k, len) ==
    LET zeta(j) == get_ntt_zetas(k + (j \div (2 * len)))
        t(j) == montgomery_reduce(mul_i32(zeta(j), st.c[j + len]))
        lower == {j \in 0..(N - 1) : j % (2 * len) < len}
    IN  [c |-> [j \in 0..(N - 1) |->
                  IF j \in lower THEN wrapping_add(st.c[j], t(j))
                  ELSE wrapping_sub(st.c[j - len], t(j - len))],
         overflow |-> \/ st.overflow
                      \/ \E j \in lower : \/ add_overflows(st.c[j], t(j))
                                          \/ sub_overflows(st.c[j], t(j)),
         k |-> k + (N \div (2 * len)),
         len |-> len \div 2]

\* one pass of the outer loop of inv_ntt
inv_ntt_level(st, k, len) ==
    LET zeta(j) == get_inv_ntt_zetas(k + (j \div (2 * len)))
        lower == {j \in 0..(N - 1) : j % (2 * len) < len}
    IN  [c |-> [j \in 0..(N - 1) |->
                  IF j \in lower THEN wrapping_add(st.c[j], st.c[j + len])
                  ELSE montgomery_reduce(
                          mul_i32(zeta(j - len),
                                  wrapping_sub(st.c[j - len], st.c[j])))],
         overflow |-> \/ st.overflow
                      \/ \E j \in lower : \/ add_overflows(st.c[j], st.c[j + len])
                                          \/ sub_overflows(st.c[j], st.c[j + len]),
         k |-> k + (N \div (2 * len)),
         len |-> len * 2]

\* the last loop of inv_ntt: every coefficient times n_inv, reduced
inv_ntt_scale(st) ==
    [c |-> [j \in 0..(N - 1) |-> montgomery_reduce(mul_i32(8347681, st.c[j]))],
     overflow |-> st.overflow, k |-> st.k, len |-> st.len]

-----------------------------------------------------------------------------
(* The transform as a function: a polynomial with coefficients in [0, Q) is  *)
(* given, ntt runs on it pass by pass and inv_ntt runs on the result.        *)

Delta(i, v) == [j \in 0..(N - 1) |-> IF j = i THEN v ELSE 0]

Affine(a, b) == [j \in 0..(N - 1) |-> (a * j + b) % Q]

NttInputs ==
    {Delta(i, v) : i \in {0, 5, 128, 255}, v \in {1, 7, Q - 1}}
    \cup {Affine(a, b) : a \in {0, 1, 32719}, b \in {0, 1, Q - 1}}

InitNtt ==
    /\ ChainOff
    /\ MerkleOff
    /\ GuestOff
    /\ CollectorOff
    /\ fn_in \in NttInputs
    /\ fn_out = [c |-> fn_in, overflow |-> FALSE, k |-> 0, len |-> 128]
    /\ pc_fn = "ntt"

NttLevel ==
    /\ pc_fn = "ntt"
    /\ LET next == ntt_level(fn_out, fn_out.k, fn_out.len)
       IN  IF next.len >= 1
           THEN fn_out' = next /\ pc_fn' = "ntt"
           ELSE fn_out' = [next EXCEPT !.k = 0, !.len = 1] /\ pc_fn' = "inv_ntt"
    /\ UNCHANGED <<fn_in, OtherThanFn>>

InvNttLevel ==
    /\ pc_fn = "inv_ntt"
    /\ fn_out' = inv_ntt_level(fn_out, fn_out.k, fn_out.len)
    /\ pc_fn' = IF fn_out'.len < N THEN "inv_ntt" ELSE "scale"
    /\ UNCHANGED <<fn_in, OtherThanFn>>

InvNttScale ==
    /\ pc_fn = "scale"
    /\ fn_out' = inv_ntt_scale(fn_out)
    /\ pc_fn' = "done"
    /\ UNCHANGED <<fn_in, OtherThanFn>>

NextNtt ==
    \/ NttLevel
    \/ InvNttLevel
    \/ InvNttScale

SpecNtt == InitNtt /\ [][NextNtt]_vars

-----------------------------------------------------------------------------
(* Properties of the proof-admission state machine *)

Stores(S) ==
    <<S.Aggregators, S.VerifiedBatches, S.VerifiedRequests, S.ProofCommitments,
      S.TotalProofsVerified, S.TotalSignaturesVerified>>

Submit(origin, submission) ==
    submit_proof(Storage, origin, submission, ExpectedVKeyHash, block_number)

\* C1: a submit_proof call that returns an error leaves Aggregators,
\* VerifiedBatches, VerifiedRequests, ProofCommitments, TotalProofsVerified and
\* TotalSignaturesVerified as they were, whichever check failed.
C1_FailedSubmitChangesNothing ==
    \A origin \in AllOrigins, submission \in Probes :
        LET r == Submit(origin, submission)
        IN  r.res # "Ok" => Stores(r.storage) = Stores(Storage)

C1_Witness ==
    /\ last.op = "submit_proof"
    /\ last.res = "ProofVerificationFailed"
    /\ TotalProofsVerified > 0
    /\ is_aggregator(Storage, last.origin)

\* C2: submit_proof from an account that is not registered, or is registered
\* but deactivated, returns NotAuthorized whatever else is wrong with the
\* submission.
C2_UnauthorizedIsRejectedFirst ==
    \A origin \in Accounts, submission \in Probes :
        ~is_aggregator(Storage, origin)
            => Submit(origin, submission).res = "NotAuthorized"

C2_Witness ==
    /\ last.op = "submit_proof"
    /\ last.res = "NotAuthorized"
    /\ contains_key(Aggregators, last.origin)
    /\ ~Aggregators[last.origin].active
    /\ last.arg.public_values.chain_id # TESSERAX_CHAIN_ID
    /\ ~merkle_root_valid(last.arg)

\* C3: a BatchRecord appears only by an accepted submit_proof for its
\* batch_id; once stored it is never modified or removed; and every later
\* submit_proof with that batch_id is rejected, with BatchAlreadyVerified when
\* the caller is an active aggregator.
C3_BatchRecordIsTerminal ==
    /\ [](\A origin \in AllOrigins, submission \in Probes :
            contains_key(VerifiedBatches, submission.batch_id)
                => LET r == Submit(origin, submission)
                   IN  /\ r.res # "Ok"
                       /\ is_aggregator(Storage, origin)
                             => r.res = "BatchAlreadyVerified")
    /\ [][/\ \A b \in DOMAIN VerifiedBatches :
                /\ b \in DOMAIN VerifiedBatches'
                /\ VerifiedBatches'[b] = VerifiedBatches[b]
          /\ \A b \in (DOMAIN VerifiedBatches') \ (DOMAIN VerifiedBatches) :
                /\ last'.op = "submit_proof"
                /\ last'.res = "Ok"
                /\ last'.arg.batch_id = b]_vars

C3_Witness ==
    /\ last.op = "submit_proof"
    /\ last.res = "BatchAlreadyVerified"
    /\ VerifiedBatches[last.arg.batch_id].proof_commitment
          # compute_proof_commitment(last.arg)
    /\ VerifiedBatches[last.arg.batch_id].aggregator # last.origin

\* C4 (as amended): a bit-identical submission made twice by an active
\* aggregator is accepted the first time and rejected the second time with
\* BatchAlreadyVerified, and the second call leaves the storage as the first
\* call left it.
C4_ReplayIsRejectedAsBatchAlreadyVerified ==
    \A origin \in Accounts, submission \in Probes, blk \in block_number..MaxBlock :
        LET first == Submit(origin, submission)
            second == submit_proof(first.storage, origin, submission,
                                   ExpectedVKeyHash, blk)
        IN  first.res = "Ok"
                => /\ second.res = "BatchAlreadyVerified"
                   /\ second.storage = first.storage

\* C4 (as claimed): the second of two bit-identical submissions by an active
\* aggregator is rejected with ProofAlreadyUsed.
C4_ReplayIsRejectedAsProofAlreadyUsed ==
    (/\ last.op = "submit_proof"
     /\ last.res # "Ok"
     /\ is_aggregator(Storage, last.origin)
     /\ contains_key(VerifiedBatches, last.arg.batch_id)
     /\ VerifiedBatches[last.arg.batch_id].aggregator = last.origin
     /\ VerifiedBatches[last.arg.batch_id].proof_commitment
           = compute_proof_commitment(last.arg)
     /\ last.arg \in WellFormed)
        => last.res = "ProofAlreadyUsed"

C4_Witness ==
    /\ last.op = "submit_proof"
    /\ last.res = "BatchAlreadyVerified"
    /\ last.arg \in WellFormed
    /\ is_aggregator(Storage, last.origin)
    /\ VerifiedBatches[last.arg.batch_id].aggregator = last.origin
    /\ VerifiedBatches[last.arg.batch_id].proof_commitment
          = compute_proof_commitment(last.arg)
    /\ VerifiedBatches[last.arg.batch_id].signature_count
          = last.arg.public_values.verified_count

\* C5: once a submission has been admitted, a later submission under another
\* batch_id with the same vkey_hash, requests_root and proof bytes is rejected.
C5_SameProofUnderOtherBatchIdIsRejected ==
    \A b \in DOMAIN VerifiedBatches :
        (/\ last.op = "submit_proof"
         /\ b # last.arg.batch_id
         /\ VerifiedBatches[b].proof_commitment
               = compute_proof_commitment([last.arg EXCEPT !.batch_id = b]))
            => last.res # "Ok"

\* C7: the submission an active aggregator makes of the bundle the host
\* produced for scenario A (ids 0..9, all validly signed) under an unseen
\* batch_id is accepted; then request 5 is verified, the aggregator's
\* proofs_submitted has gone up by one and the batch has its BatchRecord.
C7_ScenarioAIsAdmitted ==
    (/\ last.op = "submit_proof"
     /\ last.arg = ScenarioASubmission(last.arg.batch_id)
     /\ is_aggregator(Storage, last.origin)
     /\ last.res # "BatchAlreadyVerified")
        => /\ last.res = "Ok"
           /\ is_request_verified(Storage, 5)
           /\ Aggregators[last.origin].proofs_submitted >= 1
           /\ contains_key(VerifiedBatches, last.arg.batch_id)

\* C8: on a successful submit_proof, and only then, the commitment is
\* inserted for the current block, the BatchRecord of batch_id is created,
\* every listed id gets the entry (batch_id, current block), the submitting
\* aggregator's proofs_submitted and TotalProofsVerified go up by one,
\* TotalSignaturesVerified goes up by verified_count and ProofVerified is
\* deposited.
C8_SuccessWritesEverythingTogether ==
    \A origin \in AllOrigins, submission \in Probes :
        LET r == Submit(origin, submission)
            T == r.storage
            pv == submission.public_values
            c == compute_proof_commitment(submission)
            verified == [event |-> "ProofVerified",
                         batch_id |-> submission.batch_id,
                         aggregator |-> origin,
                         signature_count |-> pv.verified_count,
                         block_number |-> block_number]
        IN  IF r.res = "Ok"
            THEN /\ ~contains_key(ProofCommitments, c)
                 /\ T.ProofCommitments = insert(ProofCommitments, c, block_number)
                 /\ ~contains_key(VerifiedBatches, submission.batch_id)
                 /\ DOMAIN T.VerifiedBatches
                       = (DOMAIN VerifiedBatches) \cup {submission.batch_id}
                 /\ T.VerifiedBatches[submission.batch_id]
                       = [aggregator |-> origin,
                          verified_at |-> block_number,
                          signature_count |-> pv.verified_count,
                          requests_root |-> pv.requests_root,
                          proof_commitment |-> c]
                 /\ \A i \in 1..Len(pv.verified_request_ids) :
                       /\ contains_key(T.VerifiedRequests, pv.verified_request_ids[i])
                       /\ T.VerifiedRequests[pv.verified_request_ids[i]]
                             = <<submission.batch_id, block_number>>
                 /\ T.Aggregators[origin].proofs_submitted
                       = Aggregators[origin].proofs_submitted + 1
                 /\ \A a \in (DOMAIN Aggregators) \ {origin} :
                       T.Aggregators[a] = Aggregators[a]
                 /\ T.TotalProofsVerified = TotalProofsVerified + 1
                 /\ T.TotalSignaturesVerified
                       = TotalSignaturesVerified + pv.verified_count
                 /\ r.dep = <<verified>>
            ELSE /\ Stores(T) = Stores(Storage)
                 /\ \A i \in 1..Len(r.dep) : r.dep[i].event # "ProofVerified"

C8_Witness ==
    /\ last.op = "submit_proof"
    /\ last.res = "Ok"
    /\ Len(last.arg.public_values.verified_request_ids) = 2
    /\ TotalProofsVerified = 2
    /\ TotalSignaturesVerified = 3

\* C9: a VerifiedRequests entry, once created, keeps its (batch_id, block)
\* and is never removed, whatever is accepted later.
C9_VerifiedRequestIsNeverChanged ==
    [][\A id \in DOMAIN VerifiedRequests :
          /\ id \in DOMAIN VerifiedRequests'
          /\ VerifiedRequests'[id] = VerifiedRequests[id]]_vars

\* C10: an aggregator record is never deleted, a deactivated aggregator never
\* becomes active again, and register_aggregator on a registered or
\* deactivated account fails with AggregatorAlreadyRegistered.
C10_DeactivationIsTerminal ==
    /\ [](\A a \in DOMAIN Aggregators :
            register_aggregator(Storage, "root", a, block_number).res
                = "AggregatorAlreadyRegistered")
    /\ [][\A a \in DOMAIN Aggregators :
            /\ a \in DOMAIN Aggregators'
            /\ ~Aggregators[a].active => ~Aggregators'[a].active]_vars

C10_Witness ==
    /\ last.op = "register_aggregator"
    /\ last.origin = "root"
    /\ last.res = "AggregatorAlreadyRegistered"
    /\ ~Aggregators[last.arg].active
    /\ Aggregators[last.arg].proofs_submitted > 0

\* C6: for every id list the guest, the shared library and the pallet compute
\* the same root.
C6_SameRootOnBothSides ==
    pc_merkle = "done" => (roots.guest = roots.lib /\ roots.lib = roots.pallet)

-----------------------------------------------------------------------------
(* Privileged calls, the checks of submit_proof and its rejection events *)

\* the submission reaches the given check of submit_proof: the caller is
\* signed and authorized and every earlier check passes
ReachesVKeyCheck(origin, submission) ==
    /\ ensure_signed(origin)
    /\ authorized(Storage, origin)
    /\ batch_unseen(Storage, submission)
    /\ public_values_valid(submission)

ReachesMerkleCheck(origin, submission) ==
    /\ ReachesVKeyCheck(origin, submission)
    /\ vkey_hash_valid(ExpectedVKeyHash, submission)
    /\ commitment_unused(Storage, compute_proof_commitment(submission))

ReachesStructuralCheck(origin, submission) ==
    /\ ReachesMerkleCheck(origin, submission)
    /\ merkle_root_valid(submission)

\* C11: register_aggregator and deactivate_aggregator from any origin other
\* than root fail and leave the storage as it was; deactivate_aggregator by
\* root on an account that is not registered fails with AggregatorNotFound and
\* leaves the storage as it was.
C11_AdminCallsArePrivileged ==
    /\ \A origin \in AllOrigins \ {"root"}, a \in Accounts :
          LET r == register_aggregator(Storage, origin, a, block_number)
              d == deactivate_aggregator(Storage, origin, a)
          IN  /\ r.res # "Ok"
              /\ r.storage = Storage
              /\ d.res # "Ok"
              /\ d.storage = Storage
    /\ \A a \in Accounts \ (DOMAIN Aggregators) :
          LET d == deactivate_aggregator(Storage, "root", a)
          IN  /\ d.res = "AggregatorNotFound"
              /\ d.storage = Storage

C11_Witness ==
    /\ last.op = "deactivate_aggregator"
    /\ last.origin \in Accounts
    /\ last.res = "BadOrigin"
    /\ last.arg # last.origin
    /\ is_aggregator(Storage, last.origin)
    /\ is_aggregator(Storage, last.arg)

\* C12: with a non-zero ExpectedVKeyHash every admitted submission carries
\* that vkey_hash, and a submission with another vkey_hash that reaches the
\* check is rejected with InvalidVKeyHash; with an all-zero ExpectedVKeyHash no
\* submission is rejected with InvalidVKeyHash.
C12_VKeyHashIsBound ==
    \A origin \in AllOrigins, submission \in Probes :
        LET r == Submit(origin, submission)
        IN  IF ExpectedVKeyHash # Zero32
            THEN /\ r.res = "Ok" => submission.vkey_hash = ExpectedVKeyHash
                 /\ (/\ ReachesVKeyCheck(origin, submission)
                     /\ submission.vkey_hash # ExpectedVKeyHash)
                        => r.res = "InvalidVKeyHash"
            ELSE r.res # "InvalidVKeyHash"

C12_Witness ==
    /\ ExpectedVKeyHash = Zero32
    /\ last.op = "submit_proof"
    /\ last.res = "Ok"
    /\ last.arg.vkey_hash = OtherVKey
    /\ contains_key(VerifiedBatches, last.arg.batch_id)

\* C13: an admitted submission's requests_root is the root the pallet computes
\* over its verified_request_ids; a submission that reaches the check with
\* another root is rejected with InvalidMerkleRoot; and the BatchRecord a step
\* creates holds the pallet's root of the ids that step marks verified for it.
C13_AdmittedRootIsTheOnChainRoot ==
    /\ [](\A origin \in AllOrigins, submission \in Probes :
            LET r == Submit(origin, submission)
                pv == submission.public_values
                root == compute_merkle_root(pv.verified_request_ids)
            IN  /\ r.res = "Ok"
                      => /\ pv.requests_root = root
                         /\ r.storage.VerifiedBatches[submission.batch_id]
                               .requests_root = root
                /\ (/\ ReachesMerkleCheck(origin, submission)
                    /\ pv.requests_root # root)
                       => r.res = "InvalidMerkleRoot")
    /\ [][\A b \in (DOMAIN VerifiedBatches') \ (DOMAIN VerifiedBatches) :
            LET ids == last'.arg.public_values.verified_request_ids
            IN  /\ VerifiedBatches'[b].requests_root = compute_merkle_root(ids)
                /\ \A i \in 1..Len(ids) :
                      /\ contains_key(VerifiedRequests', ids[i])
                      /\ VerifiedRequests'[ids[i]][1] = b]_vars

C13_Witness ==
    /\ last.op = "submit_proof"
    /\ last.res = "InvalidMerkleRoot"
    /\ last.arg.public_values.requests_root
          = guest_compute_merkle_root(last.arg.public_values.verified_request_ids)
    /\ \E b \in DOMAIN VerifiedBatches :
          VerifiedBatches[b].requests_root = compute_merkle_root(<<5, 6>>)

\* C14: an admitted submission's proof bytes pass the size floor, carry the
\* commitment of the verification key and carry the binding to the public
\* values.
C14_StructuralCheckEnforcesAllThree ==
    (last.op = "submit_proof" /\ last.res = "Ok")
        => /\ proof_size_ok(last.arg.proof)
           /\ found_commitment(last.arg.proof, last.arg.vkey_hash)
           /\ valid_public_binding(last.arg.proof,
                                   public_values_hash(last.arg.public_values))

C16_EveryRejectionDepositsItsReason ==
    (/\ last.op = "submit_proof"
     /\ last.res \in {"BatchAlreadyVerified", "ProofAlreadyUsed",
                      "InvalidPublicValues", "InvalidVKeyHash",
                      "InvalidMerkleRoot"})
        => \E i \in 1..Len(last.dep) :
              /\ last.dep[i].event = "ProofRejected"
              /\ last.dep[i].batch_id = last.arg.batch_id
              /\ last.dep[i].aggregator = last.origin
              /\ last.dep[i].reason = last.res

-----------------------------------------------------------------------------
(* Properties of the guest *)

\* what the verifier says of a request of right sizes
Verifiable(request) == validate_sizes(request) /\ verify_mldsa_signature(request)

RequestIds(requests) == [i \in 1..Len(requests) |-> requests[i].request_id]

ExpectedInput == guest_in.version = REML_VERSION /\ guest_in.chain_id = TESSERAX_CHAIN_ID

\* C17: for an input with the expected version and chain id the guest commits
\* an output whose verified_request_ids are, in input order, the ids of the
\* requests of right sizes that the verifier accepts, however many requests
\* fail; scenario A gives 0..9, scenario A with request 3 corrupted gives the
\* same list without 3 and verified_count 9.
C17_VerifiedIdsAreTheAcceptedSubsequence ==
    (pc_guest = "done" /\ ExpectedInput)
        => /\ ~guest_out.aborted
           /\ guest_out.output.verified_request_ids
                 = RequestIds(SelectSeq(guest_in.requests, Verifiable))
           /\ guest_in.requests = ScenarioARequests
                 => /\ guest_out.output.verified_request_ids
                          = <<0, 1, 2, 3, 4, 5, 6, 7, 8, 9>>
                    /\ guest_out.output.verified_count = 10
           /\ guest_in.requests = ScenarioBRequests
                 => /\ guest_out.output.verified_request_ids
                          = <<0, 1, 2, 4, 5, 6, 7, 8, 9>>
                    /\ guest_out.output.verified_count = 9

C17_Witness ==
    /\ pc_guest = "done"
    /\ ExpectedInput
    /\ guest_in.requests = ScenarioBRequests
    /\ guest_out.output.verified_count = 9

\* C18: every output the guest commits has verified_count equal to the length
\* of verified_request_ids, requests_root equal to the guest's Merkle root of
\* verified_request_ids, the batch_id of the input and the expected version
\* and chain id.
C18_CommittedOutputIsConsistent ==
    (pc_guest = "done" /\ ~guest_out.aborted)
        => LET output == guest_out.output
           IN  /\ output.verified_count = Len(output.verified_request_ids)
               /\ output.requests_root
                     = guest_compute_merkle_root(output.verified_request_ids)
               /\ output.batch_id = guest_in.batch_id
               /\ output.version = REML_VERSION
               /\ output.chain_id = TESSERAX_CHAIN_ID

C18_Witness ==
    /\ pc_guest = "done"
    /\ ~guest_out.aborted
    /\ Len(guest_in.requests) = 3
    /\ guest_out.output.verified_request_ids = <<2, 1>>
    /\ guest_out.output.batch_id = MaxBatchId
    /\ guest_out.output.requests_root # Zero32

\* C19: on an input whose version or chain id is not the expected one the
\* guest aborts without handing any request to the verifier and commits no
\* output, and the host's generate_proof returns an error and no bundle.
C19_UnexpectedInputAborts ==
    (pc_guest = "done" /\ ~ExpectedInput)
        => /\ guest_out.aborted
           /\ guest_out.calls = 0
           /\ "output" \notin DOMAIN guest_out
           /\ ~generate_proof_result(guest_in, Unbound1024).ok

C19_Witness ==
    /\ pc_guest = "done"
    /\ guest_in.version = REML_VERSION
    /\ guest_in.chain_id # TESSERAX_CHAIN_ID
    /\ Len(guest_in.requests) = 2
    /\ \A i \in 1..Len(guest_in.requests) : Verifiable(guest_in.requests[i])
    /\ guest_out.aborted

-----------------------------------------------------------------------------
(* Properties of the Merkle commitment *)

\* C20: computing the root of the same id list again gives the same root; the
\* root of the empty list is 32 zero bytes; the root of [1] is not; and the
\* root of [1, 2, 3] is not the root of [1, 3, 2].
C20_RootIsDeterministicAndOrderSensitive ==
    pc_merkle = "done"
        => /\ roots.lib = compute_requests_root(ids_in)
           /\ ids_in = << >> => roots.lib = Zero32
           /\ ids_in = <<1>> => roots.lib # Zero32
           /\ ids_in = <<1, 2, 3>>
                 => roots.lib # compute_requests_root(<<1, 3, 2>>)

C20_Witness ==
    /\ pc_merkle = "done"
    /\ ids_in = <<1, 2, 3>>
    /\ roots.lib = compute_requests_root(<<1, 2, 3>>)
    /\ roots.lib # compute_requests_root(<<1, 3, 2>>)

-----------------------------------------------------------------------------
(* Properties of the collector *)

Submission(c) == conn[c].request.route = "POST /submit"

\* the submission as the client sent it is the JSON of a SignatureRequest
\* whose key and signature have the ML-DSA sizes
WellFormedSubmission(request) == request.json_ok /\ validate_sizes(request)

Answered(c) == conn[c].pc = "idle" /\ conn[c].response # NoResponse

HoldsTheBuffer == {"push", "take", "drop", "pending"}

\* C21: with batch_size >= 1, the buffer is taken exactly in the step that
\* follows the push which brought it to batch_size, by the holder of the write
\* lock, and that one step empties the buffer and assigns batch_counter + 1;
\* the batches taken are numbered 1, 2, 3, ... and the k-th one holds the k-th
\* run of batch_size requests in the order they were pushed; the buffer holds
\* the requests pushed since, fewer than batch_size whenever nobody holds the
\* write lock.
C21_BatchesCloseAtBatchSize ==
    /\ [](batch_size >= 1 =>
            /\ Len(pending_requests) <= batch_size
            /\ (rw_lock.writer = NoWriter => Len(pending_requests) < batch_size)
            /\ (Len(pending_requests) = batch_size =>
                    /\ rw_lock.writer \in Conns
                    /\ conn[rw_lock.writer].pc = "take")
            /\ batch_counter = Len(closed)
            /\ \A k \in 1..Len(closed) :
                  /\ closed[k].batch_id = k
                  /\ closed[k].requests =
                        SubSeq(pushed, (k - 1) * batch_size + 1, k * batch_size)
            /\ pending_requests =
                  SubSeq(pushed, Len(closed) * batch_size + 1, Len(pushed)))
    /\ [][(batch_size >= 1 /\ (closed' # closed \/ batch_counter' # batch_counter
                               \/ Len(pending_requests') < Len(pending_requests)))
            => /\ Len(pending_requests) = batch_size
               /\ rw_lock.writer # NoWriter
               /\ rw_lock' = rw_lock
               /\ pending_requests' = << >>
               /\ batch_counter' = batch_counter + 1
               /\ closed' = Append(closed, [batch_id |-> batch_counter + 1,
                                            requests |-> pending_requests])]_vars

C21_Witness ==
    /\ batch_size = 2
    /\ batch_counter = 1
    /\ Len(closed[1].requests) = 2
    /\ closed[1].requests[1].n > closed[1].requests[2].n
    /\ Len(pending_requests) = 1
    /\ rw_lock.writer = NoWriter

\* C22: a submission that is not the JSON of a SignatureRequest, or whose key
\* or signature has the wrong size, is answered 400 and its handler changes
\* neither the buffer nor the batch counter; every well-formed submission is
\* answered 200, with the pending count or with the batch it triggered.
C22_MalformedIs400WellFormedIs200 ==
    /\ [](\A c \in Conns :
            (Submission(c) /\ Answered(c)) =>
                IF WellFormedSubmission(conn[c].request)
                THEN /\ conn[c].response.status = 200
                     /\ conn[c].response.body.status = "accepted"
                     /\ DOMAIN conn[c].response.body \in
                            {{"status", "request_id", "pending"},
                             {"status", "request_id", "batch_triggered"}}
                ELSE conn[c].response.status = 400)
    /\ [][\A c \in Conns :
            (Submission(c) /\ ~WellFormedSubmission(conn[c].request)
                /\ conn'[c] # conn[c] /\ conn[c].pc # "idle")
                => /\ pending_requests' = pending_requests
                   /\ batch_counter' = batch_counter]_vars

C24_BatchesCompletedCountsEndedProofs ==
    [][\A c \in Conns :
          (/\ conn[c].request.route = "GET /status"
           /\ conn[c].pc = "report"
           /\ conn'[c].pc = "idle")
              => /\ conn'[c].response.body.pending_requests = Len(pending_requests)
                 /\ conn'[c].response.body.batch_size = batch_size
                 /\ conn'[c].response.body.batches_completed =
                        Cardinality(DOMAIN proofs)]_vars

-----------------------------------------------------------------------------
(* Properties of the serialization *)

\* C25: reading back what was written gives the value that was written, for a
\* SignatureRequest, a RemlProofOutput and a RemlProofBundle, byte fields in
\* hex included; a byte field is written as two lower-case hex digits per
\* byte.
C25_ParseOfSerializeIsIdentity ==
    pc_fn = "done" =>
        /\ fn_out.parsed = Ok(fn_in.value)
        /\ fn_in.type = "SignatureRequest" =>
              /\ Len(fn_out.json.public_key) = 2 * Len(fn_in.value.public_key)
              /\ Len(fn_out.json.signature) = 2 * Len(fn_in.value.signature)
        /\ fn_in.type = "RemlProofOutput" =>
              Len(fn_out.json.requests_root) = 64
        /\ fn_in.type = "RemlProofBundle" =>
              /\ Len(fn_out.json.proof) = 2 * Len(fn_in.value.proof)
              /\ Len(fn_out.json.vkey_hash) = 64
              /\ Len(fn_out.json.output.requests_root) = 64

C25_Witness ==
    /\ pc_fn = "done"
    /\ fn_in.type = "RemlProofBundle"
    /\ fn_in.value.proof = <<0, 171>>
    /\ fn_out.json.proof = <<"0", "0", "a", "b">>
    /\ fn_in.value.vkey_hash[1] = 10
    /\ fn_out.json.vkey_hash[2] = "a"
    /\ fn_out.parsed.ok
    /\ fn_out.parsed.value.proof = <<0, 171>>

-----------------------------------------------------------------------------
(* Properties of the ML-DSA verifier *)

Abs(x) == IF x < 0 THEN 0 - x ELSE x

\* C26: a signature is accepted only if every coefficient of z has absolute
\* value strictly below gamma1 - beta = 130994.
C26_AcceptedZIsStrictlyBelowTheBound ==
    (pc_fn = "done" /\ fn_out.result) =>
        \A i \in 1..Len(fn_in.z_packed) :
            Abs(unpack_z(fn_in.z_packed)[i]) < GAMMA1 - BETA

\* C27: validate_sizes is true exactly when the key has 1312 bytes and the
\* signature 2420; for any other length the verifier returns false at its
\* size checks, and main skips the request without calling the verifier.
C27_WrongSizesAreRejectedFirst ==
    pc_fn = "done" =>
        LET sizes_match == /\ fn_in.public_key_len = MLDSA_PUBLIC_KEY_SIZE
                           /\ fn_in.signature_len = MLDSA_SIGNATURE_SIZE
            request == RequestOf(fn_in)
            run == guest_main(RemlProofInput_new(<<request>>, 1))
        IN  /\ validate_sizes(request) <=> sizes_match
            /\ ~sizes_match =>
                  /\ fn_out.result = FALSE
                  /\ fn_out.at \in {"public_key.len", "signature.len"}
                  /\ ~run.aborted
                  /\ run.calls = 0
                  /\ run.output.verified_count = 0
            /\ sizes_match =>
                  /\ fn_out.at \notin {"public_key.len", "signature.len"}
                  /\ run.calls = 1

C27_Witness ==
    /\ pc_fn = "done"
    /\ fn_in.public_key_len = MLDSA_PUBLIC_KEY_SIZE
    /\ fn_in.signature_len = MLDSA_SIGNATURE_SIZE - 1
    /\ fn_in.challenge_matches
    /\ fn_out = Returned(FALSE, "signature.len")

-----------------------------------------------------------------------------
(* Properties of the Merkle tree construction *)

\* the tree the construction rule gives for up to seven leaves, written out:
\* adjacent nodes are hashed left then right, an odd last node moves up as
\* it is
TreeOf(H(_), l) ==
    CASE Len(l) = 1 -> l[1]
      [] Len(l) = 2 -> H(l[1] \o l[2])
      [] Len(l) = 3 -> H(H(l[1] \o l[2]) \o l[3])
      [] Len(l) = 4 -> H(H(l[1] \o l[2]) \o H(l[3] \o l[4]))
      [] Len(l) = 5 -> H(H(H(l[1] \o l[2]) \o H(l[3] \o l[4])) \o l[5])
      [] Len(l) = 6 -> H(H(H(l[1] \o l[2]) \o H(l[3] \o l[4]))
                         \o H(l[5] \o l[6]))
      [] Len(l) = 7 -> H(H(H(l[1] \o l[2]) \o H(l[3] \o l[4]))
                         \o H(H(l[5] \o l[6]) \o l[7]))

\* C28: for a non-empty id list the library's root and the pallet's root are
\* each the tree over the hashes of the ids in input order in which adjacent
\* nodes are hashed as left || right and an odd last node is promoted
\* unchanged: root([a]) = leaf(a), root([a, b, c]) = H(H(leaf(a) || leaf(b))
\* || leaf(c)), and so on for every length.
C28_OddNodeIsPromotedUnchanged ==
    (pc_merkle = "done" /\ Len(ids_in) \in 1..7) =>
        /\ roots.lib =
              TreeOf(Keccak256,
                     [i \in 1..Len(ids_in) |-> Keccak256(to_le_bytes(ids_in[i], 8))])
        /\ roots.pallet =
              TreeOf(blake2_256,
                     [i \in 1..Len(ids_in) |-> blake2_256(padded_leaf(ids_in[i]))])

C28_Witness ==
    /\ pc_merkle = "done"
    /\ ids_in = <<1, 2, 3, 1, 2>>
    /\ roots.lib = Keccak256(
          Keccak256(Keccak256(Keccak256(to_le_bytes(1, 8)) \o Keccak256(to_le_bytes(2, 8)))
                    \o Keccak256(Keccak256(to_le_bytes(3, 8)) \o Keccak256(to_le_bytes(1, 8))))
          \o Keccak256(to_le_bytes(2, 8)))

-----------------------------------------------------------------------------
(* Properties of the public-value check of submit_proof *)

\* C29: a submission by an active aggregator for a batch not yet verified
\* whose public values carry another version, another chain id or a batch_id
\* other than the claimed one is rejected with InvalidPublicValues and changes
\* nothing, whatever its vkey_hash, commitment, root and proof are; no other
\* submission is rejected with InvalidPublicValues; a submission with such
\* public values that fails an earlier check gets that check's error; and none
\* is ever admitted.
C29_MismatchedPublicValuesAreRejected ==
    \A origin \in AllOrigins, submission \in Probes :
        LET r == Submit(origin, submission)
            pv == submission.public_values
            mismatch == \/ pv.version # REML_VERSION
                        \/ pv.chain_id # TESSERAX_CHAIN_ID
                        \/ pv.batch_id # submission.batch_id
            reaches == /\ ensure_signed(origin)
                       /\ authorized(Storage, origin)
                       /\ batch_unseen(Storage, submission)
        IN  /\ (reaches /\ mismatch) =>
                  /\ r.res = "InvalidPublicValues"
                  /\ r.storage = Storage
                  /\ r.dep = << >>
            /\ r.res = "InvalidPublicValues" => (reaches /\ mismatch)
            /\ (mismatch /\ ~reaches) =>
                  r.res \in {"BadOrigin", "NotAuthorized", "BatchAlreadyVerified"}
            /\ mismatch => r.res # "Ok"

C29_Witness ==
    /\ last.op = "submit_proof"
    /\ last.res = "InvalidPublicValues"
    /\ last.arg.public_values.chain_id # TESSERAX_CHAIN_ID
    /\ ~merkle_root_valid(last.arg)
    /\ ~proof_size_ok(last.arg.proof)
    /\ contains_key(VerifiedBatches, 1)
    /\ ~contains_key(VerifiedBatches, last.arg.batch_id)

-----------------------------------------------------------------------------
(* Properties of the challenge sampler *)

NonZero(c) == {x \in DOMAIN c : c[x] # 0}

-----------------------------------------------------------------------------
(* Properties of the pallet's storage as a whole *)

\* C31: the Aggregators map never holds more than MaxAggregators entries,
\* whatever register_aggregator calls were made.
C31_AggregatorsNeverExceedMaxAggregators ==
    Cardinality(DOMAIN Aggregators) <= MaxAggregators

RECURSIVE SumOfProofsSubmitted(_, _)
SumOfProofsSubmitted(aggregators, accounts) ==
    IF accounts = {} THEN 0
    ELSE LET a == CHOOSE x \in accounts : TRUE
         IN  aggregators[a].proofs_submitted
                + SumOfProofsSubmitted(aggregators, accounts \ {a})

\* C32: in every state reached by register_aggregator, deactivate_aggregator
\* and submit_proof calls, TotalProofsVerified is the number of
\* VerifiedBatches entries, the number of ProofCommitments entries, and the
\* sum of proofs_submitted over all aggregators.
C32_ProofCountersAgree ==
    /\ TotalProofsVerified = Cardinality(DOMAIN VerifiedBatches)
    /\ TotalProofsVerified = Cardinality(DOMAIN ProofCommitments)
    /\ TotalProofsVerified =
          SumOfProofsSubmitted(Aggregators, DOMAIN Aggregators)

C32_Witness ==
    /\ TotalProofsVerified = 2
    /\ DOMAIN Aggregators = {"alice", "bob"}
    /\ Aggregators["alice"].proofs_submitted = 1
    /\ Aggregators["bob"].proofs_submitted = 1
    /\ ~Aggregators["bob"].active
    /\ last.op = "register_aggregator"
    /\ last.res = "AggregatorAlreadyRegistered"

RECURSIVE SumOfSignatureCounts(_, _)
SumOfSignatureCounts(batches, ids) ==
    IF ids = {} THEN 0
    ELSE LET b == CHOOSE x \in ids : TRUE
         IN  batches[b].signature_count
                + SumOfSignatureCounts(batches, ids \ {b})

\* an id is listed twice in the list, or is already marked verified
Repeats(ids, marked) ==
    \/ \E i, j \in 1..Len(ids) : i # j /\ ids[i] = ids[j]
    \/ \E i \in 1..Len(ids) : ids[i] \in DOMAIN marked

\* C33: in every reachable state TotalSignaturesVerified is the sum of
\* signature_count over all batch records and VerifiedRequests has at most
\* that many entries; the record written by an admission has the number of
\* ids the submission lists as its signature_count and no record changes
\* afterwards; and once an admitted list repeats an id, within the list or
\* from an earlier batch, VerifiedRequests has strictly fewer entries than
\* TotalSignaturesVerified from then on.
C33_SignatureCountersAgree ==
    /\ [](/\ TotalSignaturesVerified =
                SumOfSignatureCounts(VerifiedBatches, DOMAIN VerifiedBatches)
          /\ Cardinality(DOMAIN VerifiedRequests) <= TotalSignaturesVerified)
    /\ [][/\ \A b \in DOMAIN VerifiedBatches :
                b \in DOMAIN VerifiedBatches'
                /\ VerifiedBatches'[b] = VerifiedBatches[b]
          /\ TotalSignaturesVerified' - Cardinality(DOMAIN VerifiedRequests')
                >= TotalSignaturesVerified - Cardinality(DOMAIN VerifiedRequests)
          /\ VerifiedBatches' # VerifiedBatches =>
                LET ids == last'.arg.public_values.verified_request_ids
                IN  /\ last'.op = "submit_proof"
                    /\ last'.res = "Ok"
                    /\ VerifiedBatches'[last'.arg.batch_id].signature_count
                          = Len(ids)
                    /\ Repeats(ids, VerifiedRequests) =>
                          Cardinality(DOMAIN VerifiedRequests')
                             < TotalSignaturesVerified'
         ]_vars

C33_Witness ==
    /\ DOMAIN VerifiedBatches = {1, MaxBatchId}
    /\ VerifiedBatches[1].signature_count = 2
    /\ VerifiedBatches[MaxBatchId].signature_count = 3
    /\ TotalSignaturesVerified = 5
    /\ DOMAIN VerifiedRequests = {5, 6}
    /\ VerifiedRequests[6][1] = MaxBatchId

\* C34: in every reachable state each VerifiedRequests entry id -> (b, blk)
\* names a batch b that has a record in VerifiedBatches with verified_at =
\* blk, and the proof_commitment of each batch record is a key of
\* ProofCommitments whose value is the record's verified_at block.
C34_StoredReferencesResolve ==
    /\ \A id \in DOMAIN VerifiedRequests :
          /\ VerifiedRequests[id][1] \in DOMAIN VerifiedBatches
          /\ VerifiedBatches[VerifiedRequests[id][1]].verified_at
                = VerifiedRequests[id][2]
    /\ \A b \in DOMAIN VerifiedBatches :
          /\ VerifiedBatches[b].proof_commitment \in DOMAIN ProofCommitments
          /\ ProofCommitments[VerifiedBatches[b].proof_commitment]
                = VerifiedBatches[b].verified_at

C34_Witness ==
    /\ DOMAIN VerifiedBatches = {1, MaxBatchId}
    /\ VerifiedBatches[1].verified_at = 1
    /\ VerifiedBatches[MaxBatchId].verified_at = MaxBlock
    /\ DOMAIN VerifiedRequests = {5, 6}
    /\ VerifiedRequests[5] = <<MaxBatchId, MaxBlock>>
    /\ VerifiedRequests[6] = <<MaxBatchId, MaxBlock>>
    /\ Cardinality(DOMAIN ProofCommitments) = 2

\* the submission of the bundle the host makes of a batch in which no
\* signature verified
NoSignatureVerified(b, shape) ==
    SubmissionOfBundle(
        generate_proof(
            RemlProofInput_new(
                <<[request_id |-> 5,
                   public_key_len |-> MLDSA_PUBLIC_KEY_SIZE,
                   signature_len |-> MLDSA_SIGNATURE_SIZE,
                   signature_ok |-> FALSE]>>, b),
            shape))

\* C35: a submission whose verified_count is zero or differs from the length
\* of verified_request_ids is never admitted: when it passes the checks that
\* precede the structural one it is rejected with ProofVerificationFailed and
\* changes nothing, otherwise with the error of the check it fails; so every
\* stored batch record has signature_count >= 1, and the bundle of a batch in
\* which no signature verified is never recorded.
C35_EmptyBatchesAreNeverAdmitted ==
    /\ \A b \in DOMAIN VerifiedBatches : VerifiedBatches[b].signature_count >= 1
    /\ \A origin \in AllOrigins,
          submission \in Probes \cup IdSubmissions
                          \cup {NoSignatureVerified(b, shape) :
                                   b \in BatchIds, shape \in Shapes} :
          LET r == Submit(origin, submission)
              pv == submission.public_values
              empty == \/ pv.verified_count = 0
                       \/ pv.verified_count # Len(pv.verified_request_ids)
          IN  empty =>
                 /\ r.res # "Ok"
                 /\ r.storage = Storage
                 /\ ReachesStructuralCheck(origin, submission)
                       => r.res = "ProofVerificationFailed"
    /\ \A b \in BatchIds, shape \in Shapes :
          NoSignatureVerified(b, shape).public_values.verified_count = 0

C35_Witness ==
    /\ last.op = "submit_proof"
    /\ last.res = "ProofVerificationFailed"
    /\ last.arg.public_values.verified_request_ids = << >>
    /\ last.arg.public_values.verified_count = 0
    /\ last.arg = NoSignatureVerified(1, Unbound1024)
    /\ DOMAIN VerifiedBatches = {MaxBatchId}

-----------------------------------------------------------------------------
(* Properties of the collector's buffer and batches *)

\* the places a request is held in: position i of the pending buffer, as
\* <<0, i>>, and position i of the k-th closed batch, as <<k, i>>
PlacesOf(request) ==
    {<<0, i>> : i \in {j \in 1..Len(pending_requests) :
                          pending_requests[j] = request}}
    \cup UNION {{<<k, i>> : i \in {j \in 1..Len(closed[k].requests) :
                                      closed[k].requests[j] = request}} :
                  k \in 1..Len(closed)}

\* C36: under every interleaving of the submit and status handlers, every
\* request that was pushed, and so every request answered with a success
\* response, is held in exactly one place, the pending buffer or one closed
\* batch; and the batch ids of the closed batches and of the proving tasks are
\* pairwise distinct.
C36_AcceptedRequestsAreHeldOnce ==
    /\ \A i \in 1..Len(pushed) : Cardinality(PlacesOf(pushed[i])) = 1
    /\ \A c \in Conns :
          (Submission(c) /\ conn[c].response.status = 200) =>
              /\ \E i \in 1..Len(pushed) : pushed[i] = conn[c].request
              /\ Cardinality(PlacesOf(conn[c].request)) = 1
    /\ \A i, j \in 1..Len(closed) :
          closed[i].batch_id = closed[j].batch_id => i = j
    /\ \A task \in proving :
          /\ \E k \in 1..Len(closed) : closed[k] = task
          /\ task.batch_id \notin DOMAIN proofs
          /\ \A other \in proving : other.batch_id = task.batch_id => other = task

C36_Witness ==
    /\ batch_size = 2
    /\ Len(closed) = 1
    /\ Len(closed[1].requests) = 2
    /\ Len(pending_requests) = 1
    /\ pending_requests[1].request_id = closed[1].requests[1].request_id
    /\ \A c \in Conns : Submission(c) /\ conn[c].response.status = 200
    /\ \E c \in Conns : conn[c].request = pending_requests[1]
    /\ \E c \in Conns : conn[c].request = closed[1].requests[2]

\* the closed batches whose proving task ended with an error
FailedBatches ==
    {k \in 1..Len(closed) :
        /\ closed[k].batch_id \in DOMAIN proofs
        /\ proofs[closed[k].batch_id] = "failed"}

\* C37: when the proving task of a closed batch ends with an error, the
\* batch's requests are not put back into the pending buffer and are in no
\* other batch, saved or not; the batch counter is never decreased and no other
\* batch or task gets the batch_id; and no proof file is written for the
\* batch_id, then or later.
C37_FailedProvingIsNotRetried ==
    /\ [](\A k \in FailedBatches :
            /\ \A i \in 1..Len(closed[k].requests) :
                  PlacesOf(closed[k].requests[i]) = {<<k, i>>}
            /\ batch_counter >= closed[k].batch_id
            /\ \A j \in 1..Len(closed) :
                  closed[j].batch_id = closed[k].batch_id => j = k
            /\ \A task \in proving : task.batch_id # closed[k].batch_id)
    /\ [][/\ batch_counter' >= batch_counter
          /\ \A k \in FailedBatches :
                /\ k \in 1..Len(closed')
                /\ closed'[k] = closed[k]
                /\ proofs'[closed[k].batch_id] = "failed"
          /\ \A c \in Conns :
                conn'[c].pc = "drop" /\ conn[c].pc = "take"
                   => conn'[c].batch_id > batch_counter
         ]_vars

C37_Witness ==
    /\ batch_size = 1
    /\ Len(closed) = 3
    /\ DOMAIN proofs = {1, 2}
    /\ proofs[1] = "failed"
    /\ proofs[2] = "saved"
    /\ closed[1].requests[1].request_id = closed[3].requests[1].request_id
    /\ \E task \in proving : task.batch_id = 3
    /\ pending_requests = << >>

-----------------------------------------------------------------------------
(* Binding of the Merkle commitment.  The hash functions of the model are    *)
(* free constructors, so two digests are equal only when their inputs are.   *)

\* C38: with a collision-free hash, the pallet's root, the guest's root and
\* the library's root of a non-empty id list are each different from the
\* root of every other non-empty id list, of another length, with other ids
\* or in another order, and different from the all-zero root of the empty
\* list.
C38_RootIsInjectiveOnNonEmptyLists ==
    (pc_merkle = "done" /\ Len(ids_in) >= 1) =>
        /\ roots.pallet # Zero32
        /\ roots.guest # Zero32
        /\ roots.lib # Zero32
        /\ \A other \in SeqsUpTo(MerkleIds, MaxMerkleLen) :
              (Len(other) >= 1 /\ other # ids_in) =>
                  /\ compute_merkle_root(other) # roots.pallet
                  /\ guest_compute_merkle_root(other) # roots.guest
                  /\ compute_requests_root(other) # roots.lib

C38_Witness ==
    /\ pc_merkle = "done"
    /\ ids_in = <<1, 2, 3, 1, 2>>
    /\ roots.pallet # compute_merkle_root(<<1, 2, 3, 1>>)
    /\ roots.pallet # compute_merkle_root(<<1, 2, 3, 2, 1>>)
    /\ roots.guest # guest_compute_merkle_root(<<2, 1, 3, 1, 2>>)
    /\ roots.pallet =
          blake2_256(
              blake2_256(
                  blake2_256(blake2_256(padded_leaf(1)) \o blake2_256(padded_leaf(2)))
                  \o blake2_256(blake2_256(padded_leaf(3)) \o blake2_256(padded_leaf(1))))
              \o blake2_256(padded_leaf(2)))

-----------------------------------------------------------------------------
(* Properties of the number-theoretic transform *)

\* a * b mod Q for a and b in [0, Q), by the bytes of b
MulModQ(a, b) ==
    LET b0 == b % 256
        b1 == (b \div 256) % 256
        b2 == b \div 65536
        top == (a * b2) % Q
        mid == (((top * 256) % Q) + ((a * b1) % Q)) % Q
    IN  (((mid * 256) % Q) + ((a * b0) % Q)) % Q

\* C39: for a polynomial p with 256 coefficients in [0, Q), inv_ntt(ntt(p))
\* is p times one factor modulo Q: its coefficients r satisfy
\* r[i] * p[j] = r[j] * p[i] (mod Q) for all i and j, and r is zero modulo Q
\* when p is zero.
C39_InverseNttUndoesNtt ==
    pc_fn = "done" =>
        /\ \A i, j \in 0..(N - 1) :
              MulModQ(fn_out.c[i] % Q, fn_in[j]) = MulModQ(fn_out.c[j] % Q, fn_in[i])
        /\ (\A j \in 0..(N - 1) : fn_in[j] = 0)
              => \A i \in 0..(N - 1) : fn_out.c[i] % Q = 0

====
